---------------------------- MODULE Spec2Model ----------------------------
(***************************************************************************)
(* Virtual-memory subsystem of the kernel (os/src/memory): the frame       *)
(* allocator, the Sv39 page-table walk / map / unmap, and the address      *)
(* space built on them.                                                    *)
(*                                                                         *)
(* Machine words (usize on riscv64) are modelled bit-exactly as the set of *)
(* positions of their 1 bits, so that addresses above 2^31 and the shifts  *)
(* and masks of the source keep their exact meaning.                       *)
(***************************************************************************)
EXTENDS Integers, Sequences, FiniteSets, TLC

\* ------------------------------------------------------------------------
\* usize: 64-bit machine words as sets of bit positions
\* ------------------------------------------------------------------------

WIDTH == 64

Pow2(n) == 2 ^ n

\* The word of a small natural number (below 2^31).
W(n) == {i \in 0 .. 30 : (n \div Pow2(i)) % 2 = 1}

\* The word hi * 2^16 + lo, for writing 32-bit literals such as 0x8100_0000.
W32(hi, lo) == {i + 16 : i \in W(hi)} \cup W(lo)

\* The natural number of a word below 2^31 (table indices, flag bytes).
RECURSIVE Val(_)
Val(w) == IF w = {} THEN 0
          ELSE LET b == CHOOSE x \in w : TRUE IN Pow2(b) + Val(w \ {b})

\* n one bits: 0xFFF is Ones(12), 0xFFF_FFFF_FFFF is Ones(44).
Ones(n) == 0 .. (n - 1)

And(a, b) == a \cap b
Or(a, b) == a \cup b
Xor(a, b) == (a \cup b) \ (a \cap b)
Not(a) == (0 .. (WIDTH - 1)) \ a
Shr(a, n) == {i - n : i \in {j \in a : j >= n}}
Shl(a, n) == {i + n : i \in {j \in a : j + n < WIDTH}}

\* Wrapping addition (carry propagated until it dies out).
RECURSIVE Add(_, _)
Add(a, b) == IF b = {} THEN a ELSE Add(Xor(a, b), Shl(And(a, b), 1))

One == W(1)

Sub(a, b) == Add(a, Add(Not(b), One))

\* Unsigned comparison: the highest bit in which the words differ decides.
Geq(a, b) == \/ a = b
             \/ LET d == Xor(a, b)
                    top == CHOOSE x \in d : \A y \in d : y <= x
                IN  top \in a
Lt(a, b) == ~Geq(a, b)

\* Multiplication and division by a power of two (PAGE_SIZE is the only
\* multiplier and divisor in the source).
Log2(p) == CHOOSE k \in p : TRUE
Mul(a, p) == Shl(a, Log2(p))
Div(a, p) == Shr(a, Log2(p))

\* Option<T>
None == << >>
Some(x) == << x >>

\* ------------------------------------------------------------------------
\* memory/mod.rs: constants, addresses, page-table entries
\* ------------------------------------------------------------------------

PAGE_SIZE == W(4096)

PAGE_TABLE_ENTRIES == 512

page_offset(a) == And(a, Ones(12))

\* Mutant: the level-0 index taken one bit too high.
vpn0_shift13(a) == And(Shr(a, 13), Ones(9))
vpn0(a) == And(Shr(a, 12), Ones(9))

\* Mutant: the level-1 index taken one bit too high.
vpn1_shift22(a) == And(Shr(a, 22), Ones(9))
vpn1(a) == And(Shr(a, 21), Ones(9))
\* Mutant: the level-2 index is masked to 8 bits.
vpn2_mask8(a) == And(Shr(a, 30), Ones(8))
vpn2(a) == And(Shr(a, 30), Ones(9))

\* Page::containing_address / PhysFrame::containing_address (addr & !0xFFF);
\* a Page or PhysFrame is its start address.
containing_address(addr) == And(addr, Not(Ones(12)))

PTF_Valid == W(1)
PTF_Read == W(2)
PTF_Write == W(4)
PTF_Execute == W(8)
PTF_User == W(16)
PTF_Global == W(32)
PTF_Accessed == W(64)
PTF_Dirty == W(128)

pte_new == {}
RWX == Or(PTF_Read, Or(PTF_Write, PTF_Execute))           \* 0xE
pte_is_valid(e) == And(e, PTF_Valid) # {}
pte_is_leaf(e) == And(e, RWX) # {}
pte_ppn(e) == And(Shr(e, 10), Ones(44))
pte_phys_addr(e) == Shl(pte_ppn(e), 12)
\* Mutant: the page number is stored from bit 12.
pte_set_shift12(ppn, flags) == Or(Shl(ppn, 12), flags)
pte_set(ppn, flags) == Or(Shl(ppn, 10), flags)
pte_flags(e) == And(e, Ones(8))

\* PageTable::new / zero: 512 empty entries.
PageTable_zero == [i \in 0 .. (PAGE_TABLE_ENTRIES - 1) |-> pte_new]

get_entry(table, index) == table[Val(index)]

\* ------------------------------------------------------------------------
\* memory/mod.rs: SimpleFrameAllocator
\* ------------------------------------------------------------------------

\* Mutant: the cursor starts at the page containing kernel_end.
SimpleFrameAllocator_new_rounds_down(kend, mend) ==
    [next_frame |-> Div(kend, PAGE_SIZE),
     end_frame  |-> Div(mend, PAGE_SIZE)]

SimpleFrameAllocator_new(kend, mend) ==
    [next_frame |-> Div(Sub(Add(kend, PAGE_SIZE), One), PAGE_SIZE),
     end_frame  |-> Div(mend, PAGE_SIZE)]

\* Mutant: the bound is tested after the frame at the bound is handed out.
allocate_past_end(a) ==
    IF ~Geq(a.end_frame, a.next_frame)
    THEN [frame |-> None, alloc |-> a]
    ELSE [frame |-> << And(Mul(a.next_frame, {12}), Not(Ones(12))) >>,
          alloc |-> [a EXCEPT !.next_frame = Add(a.next_frame, One)]]

\* Mutant: the cursor moves on by two frames.
allocate_skips_a_frame(a) ==
    IF Geq(a.next_frame, a.end_frame)
    THEN [frame |-> None, alloc |-> a]
    ELSE [frame |-> Some(containing_address(Mul(a.next_frame, PAGE_SIZE))),
          alloc |-> [a EXCEPT !.next_frame = Add(a.next_frame, W(2))]]

\* Mutant: the cursor stays where it is.
allocate_keeps_cursor(a) ==
    IF Geq(a.next_frame, a.end_frame)
    THEN [frame |-> None, alloc |-> a]
    ELSE [frame |-> Some(containing_address(Mul(a.next_frame, PAGE_SIZE))),
          alloc |-> a]

\* allocate(): the frame handed out (None when exhausted) and the new cursor.
allocate(a) ==
    IF Geq(a.next_frame, a.end_frame)
    THEN [frame |-> None, alloc |-> a]
    ELSE [frame |-> Some(containing_address(Mul(a.next_frame, PAGE_SIZE))),
          alloc |-> [a EXCEPT !.next_frame = Add(a.next_frame, One)]]

\* Mutant: a deallocated frame is reclaimed by rewinding the cursor to it.
deallocate_rewinds(a, frame) ==
    [a EXCEPT !.next_frame = Div(frame, {12})]

\* deallocate(frame): the body is empty.
deallocate(a, frame) == a


\* ------------------------------------------------------------------------
\* Physical memory: the frames in use as page tables, by start address.
\* ------------------------------------------------------------------------

\* *(paddr as *const PageTable)
deref(m, table_paddr) == m[table_paddr]

\* *entry = value, through get_entry_mut
write_entry(m, table_paddr, index, value) ==
    [m EXCEPT ![table_paddr] = [@ EXCEPT ![Val(index)] = value]]

\* (*table).zero()
zero(m, table_paddr) == (table_paddr :> PageTable_zero) @@ m

\* entry.set(..) / *entry = .. on a level-0 entry, as it appears in the
\* trace of a call
store_entry(table_paddr, index, value) ==
    [kind |-> "store", addr |-> table_paddr, index |-> index, value |-> value]

\* "sfence.vma {0}, zero" and the full "sfence.vma"
sfence_vma(vaddr) ==
    [kind |-> "sfence.vma addr", addr |-> vaddr, index |-> {}, value |-> {}]
sfence_vma_all ==
    [kind |-> "sfence.vma", addr |-> {}, index |-> {}, value |-> {}]

\* ------------------------------------------------------------------------
\* memory/paging.rs
\* ------------------------------------------------------------------------

\* Mutant: a level-2 leaf is given the offset mask of a level-1 leaf.
walk_page_table_one_mask(m, root_paddr, vaddr) ==
    LET pte2 == get_entry(deref(m, root_paddr), vpn2(vaddr)) IN
    IF ~pte_is_valid(pte2) THEN None
    ELSE IF pte_is_leaf(pte2)
    THEN Some(Add(pte_phys_addr(pte2), And(vaddr, Ones(21))))
    ELSE
    LET pte1 == get_entry(deref(m, pte_phys_addr(pte2)), vpn1(vaddr)) IN
    IF ~pte_is_valid(pte1) THEN None
    ELSE IF pte_is_leaf(pte1)
    THEN Some(Add(pte_phys_addr(pte1), And(vaddr, Ones(21))))
    ELSE
    LET pte0 == get_entry(deref(m, pte_phys_addr(pte1)), vpn0(vaddr)) IN
    IF ~pte_is_valid(pte0) THEN None
    ELSE Some(Add(pte_phys_addr(pte0), page_offset(vaddr)))

walk_page_table(m, root_paddr, vaddr) ==
    LET pte2 == get_entry(deref(m, root_paddr), vpn2(vaddr)) IN
    IF ~pte_is_valid(pte2) THEN None
    ELSE IF pte_is_leaf(pte2)
    THEN Some(Add(pte_phys_addr(pte2), And(vaddr, Ones(30))))
    ELSE
    LET pte1 == get_entry(deref(m, pte_phys_addr(pte2)), vpn1(vaddr)) IN
    IF ~pte_is_valid(pte1) THEN None
    ELSE IF pte_is_leaf(pte1)
    THEN Some(Add(pte_phys_addr(pte1), And(vaddr, Ones(21))))
    ELSE
    LET pte0 == get_entry(deref(m, pte_phys_addr(pte1)), vpn0(vaddr)) IN
    IF ~pte_is_valid(pte0) THEN None
    ELSE Some(Add(pte_phys_addr(pte0), page_offset(vaddr)))

\* Mutant: a leaf at level 2 is read with the mask of a 2 MiB page.
walk_page_table_verbose_one_mask(m, root_paddr, vaddr) ==
    LET vpn2_ == vpn2(vaddr)
        vpn1_ == vpn1(vaddr)
        vpn0_ == vpn0(vaddr)
        offset == page_offset(vaddr)
        root_table == deref(m, root_paddr)
        pte2 == get_entry(root_table, vpn2_)
    IN
    IF ~pte_is_valid(pte2) THEN None
    ELSE IF pte_is_leaf(pte2)
    THEN Some(Add(pte_phys_addr(pte2), And(vaddr, W32(31, 65535))))
    ELSE
    LET table1_paddr == pte_phys_addr(pte2)
        pte1 == get_entry(deref(m, table1_paddr), vpn1_)
    IN
    IF ~pte_is_valid(pte1) THEN None
    ELSE IF pte_is_leaf(pte1)
    THEN Some(Add(pte_phys_addr(pte1), And(vaddr, W32(31, 65535))))
    ELSE
    LET table0_paddr == pte_phys_addr(pte1)
        pte0 == get_entry(deref(m, table0_paddr), vpn0_)
    IN
    IF ~pte_is_valid(pte0) THEN None
    ELSE Some(Add(pte_phys_addr(pte0), offset))

\* walk_page_table_verbose: the value it returns (what it prints is left
\* out). The indices and the page offset are taken first; the superpage
\* masks are 0x3FFF_FFFF and 0x1F_FFFF.
walk_page_table_verbose(m, root_paddr, vaddr) ==
    LET vpn2_ == vpn2(vaddr)
        vpn1_ == vpn1(vaddr)
        vpn0_ == vpn0(vaddr)
        offset == page_offset(vaddr)
        root_table == deref(m, root_paddr)
        pte2 == get_entry(root_table, vpn2_)
    IN
    IF ~pte_is_valid(pte2) THEN None
    ELSE IF pte_is_leaf(pte2)
    THEN Some(Add(pte_phys_addr(pte2), And(vaddr, W32(16383, 65535))))
    ELSE
    LET table1_paddr == pte_phys_addr(pte2)
        pte1 == get_entry(deref(m, table1_paddr), vpn1_)
    IN
    IF ~pte_is_valid(pte1) THEN None
    ELSE IF pte_is_leaf(pte1)
    THEN Some(Add(pte_phys_addr(pte1), And(vaddr, W32(31, 65535))))
    ELSE
    LET table0_paddr == pte_phys_addr(pte1)
        pte0 == get_entry(deref(m, table0_paddr), vpn0_)
    IN
    IF ~pte_is_valid(pte0) THEN None
    ELSE Some(Add(pte_phys_addr(pte0), offset))

\* What a map_page / unmap_page call leaves behind: memory, allocator, the
\* Result, the frames it took from the allocator, and its leaf stores and
\* fences in program order.
Outcome(m, a, res, ret, got, trace) ==
    [mem |-> m, alloc |-> a, res |-> res, ret |-> ret, got |-> got,
     trace |-> trace]

\* Mutant: the leaf is written with the caller's flags alone.
map_page_level0_keeps_flags(m, a, got, table0, vaddr, paddr, flags) ==
    LET pte0 == get_entry(deref(m, table0), vpn0(vaddr)) IN
    IF pte_is_valid(pte0)
    THEN Outcome(m, a, "Page already mapped", None, got, << >>)
    ELSE LET e == pte_set(Shr(paddr, 12), flags) IN
         Outcome(write_entry(m, table0, vpn0(vaddr), e), a, "Ok", None, got,
                 << store_entry(table0, vpn0(vaddr), e), sfence_vma(vaddr) >>)

\* Mutant: the leaf holds the page number shifted by 12.
map_page_level0_shift12(m, a, got, table0, vaddr, paddr, flags) ==
    LET pte0 == get_entry(deref(m, table0), vpn0(vaddr)) IN
    IF pte_is_valid(pte0)
    THEN Outcome(m, a, "Page already mapped", None, got, << >>)
    ELSE LET e == Or(Shl(Shr(paddr, 12), 12), Or(flags, PTF_Valid)) IN
         Outcome(write_entry(m, table0, vpn0(vaddr), e), a, "Ok", None, got,
                 << store_entry(table0, vpn0(vaddr), e), sfence_vma(vaddr) >>)

\* Mutant: an existing leaf is overwritten.
map_page_level0_overwrites(m, a, got, table0, vaddr, paddr, flags) ==
    LET e == pte_set(Shr(paddr, 12), Or(flags, PTF_Valid)) IN
    Outcome(write_entry(m, table0, vpn0(vaddr), e), a, "Ok", None, got,
            << store_entry(table0, vpn0(vaddr), e), sfence_vma(vaddr) >>)

\* Mutant: the leaf is stored before the existing entry is tested.
map_page_level0_stores_first(m, a, got, table0, vaddr, paddr, flags) ==
    LET pte0 == get_entry(deref(m, table0), vpn0(vaddr))
        e == pte_set(Shr(paddr, 12), Or(flags, PTF_Valid)) IN
    IF pte_is_valid(pte0)
    THEN Outcome(write_entry(m, table0, vpn0(vaddr), e), a,
                 "Page already mapped", None, got, << >>)
    ELSE Outcome(write_entry(m, table0, vpn0(vaddr), e), a, "Ok", None, got,
                 << store_entry(table0, vpn0(vaddr), e), sfence_vma(vaddr) >>)

\* map_page, level 0: install the leaf.
map_page_level0(m, a, got, table0, vaddr, paddr, flags) ==
    LET pte0 == get_entry(deref(m, table0), vpn0(vaddr)) IN
    IF pte_is_valid(pte0)
    THEN Outcome(m, a, "Page already mapped", None, got, << >>)
    ELSE LET e == pte_set(Shr(paddr, 12), Or(flags, PTF_Valid)) IN
         Outcome(write_entry(m, table0, vpn0(vaddr), e), a, "Ok", None, got,
                 << store_entry(table0, vpn0(vaddr), e), sfence_vma(vaddr) >>)

\* Mutant: the branch to a new level-0 table is readable as well.
map_page_level1_branch_readable(m, a, got, table1, vaddr, paddr, flags) ==
    LET pte1 == get_entry(deref(m, table1), vpn1(vaddr)) IN
    IF ~pte_is_valid(pte1)
    THEN LET r == allocate(a) IN
         IF r.frame = None
         THEN Outcome(m, r.alloc, "Out of memory", None, got, << >>)
         ELSE LET table0_paddr == r.frame[1]
                  m1 == write_entry(m, table1, vpn1(vaddr),
                                    pte_set(Shr(table0_paddr, 12),
                                            Or(PTF_Valid, PTF_Read)))
                  m2 == zero(m1, table0_paddr)
              IN  map_page_level0(m2, r.alloc, Append(got, table0_paddr),
                                  table0_paddr, vaddr, paddr, flags)
    ELSE map_page_level0(m, a, got, pte_phys_addr(pte1), vaddr, paddr, flags)

\* Mutant: a frame is taken at level 1 whether or not the level-0 table
\* exists.
map_page_level1_always_allocates(m, a, got, table1, vaddr, paddr, flags) ==
    LET pte1 == get_entry(deref(m, table1), vpn1(vaddr))
        r == allocate(a) IN
    IF r.frame = None
    THEN Outcome(m, r.alloc, "Out of memory", None, got, << >>)
    ELSE IF ~pte_is_valid(pte1)
    THEN LET table0_paddr == r.frame[1]
             m1 == write_entry(m, table1, vpn1(vaddr),
                               pte_set(Shr(table0_paddr, 12), PTF_Valid))
             m2 == zero(m1, table0_paddr)
         IN  map_page_level0(m2, r.alloc, Append(got, table0_paddr),
                             table0_paddr, vaddr, paddr, flags)
    ELSE map_page_level0(m, r.alloc, Append(got, r.frame[1]),
                         pte_phys_addr(pte1), vaddr, paddr, flags)

\* map_page, level 1: find or create the level-0 table.
map_page_level1(m, a, got, table1, vaddr, paddr, flags) ==
    LET pte1 == get_entry(deref(m, table1), vpn1(vaddr)) IN
    IF ~pte_is_valid(pte1)
    THEN LET r == allocate(a) IN
         IF r.frame = None
         THEN Outcome(m, r.alloc, "Out of memory", None, got, << >>)
         ELSE LET table0_paddr == r.frame[1]
                  m1 == write_entry(m, table1, vpn1(vaddr),
                                    pte_set(Shr(table0_paddr, 12), PTF_Valid))
                  m2 == zero(m1, table0_paddr)
              IN  map_page_level0(m2, r.alloc, Append(got, table0_paddr),
                                  table0_paddr, vaddr, paddr, flags)
    ELSE map_page_level0(m, a, got, pte_phys_addr(pte1), vaddr, paddr, flags)

\* Mutant: a call that runs out of memory undoes what it did.
map_page_rolls_back(m, a, root, vaddr, paddr, flags) ==
    LET pte2 == get_entry(deref(m, root), vpn2(vaddr))
        o == IF ~pte_is_valid(pte2)
             THEN LET r == allocate(a) IN
                  IF r.frame = None
                  THEN Outcome(m, r.alloc, "Out of memory", None, << >>, << >>)
                  ELSE LET table1_paddr == r.frame[1]
                           m1 == write_entry(m, root, vpn2(vaddr),
                                             pte_set(Shr(table1_paddr, 12),
                                                     PTF_Valid))
                           m2 == zero(m1, table1_paddr)
                       IN  map_page_level1(m2, r.alloc, << table1_paddr >>,
                                           table1_paddr, vaddr, paddr, flags)
             ELSE map_page_level1(m, a, << >>, pte_phys_addr(pte2), vaddr,
                                  paddr, flags)
    IN  IF o.res = "Out of memory"
        THEN Outcome(m, a, "Out of memory", None, << >>, << >>)
        ELSE o

map_page(m, a, root, vaddr, paddr, flags) ==
    LET pte2 == get_entry(deref(m, root), vpn2(vaddr)) IN
    IF ~pte_is_valid(pte2)
    THEN LET r == allocate(a) IN
         IF r.frame = None
         THEN Outcome(m, r.alloc, "Out of memory", None, << >>, << >>)
         ELSE LET table1_paddr == r.frame[1]
                  m1 == write_entry(m, root, vpn2(vaddr),
                                    pte_set(Shr(table1_paddr, 12), PTF_Valid))
                  m2 == zero(m1, table1_paddr)
              IN  map_page_level1(m2, r.alloc, << table1_paddr >>,
                                  table1_paddr, vaddr, paddr, flags)
    ELSE map_page_level1(m, a, << >>, pte_phys_addr(pte2), vaddr, paddr, flags)

\* map_page_verbose: prints the arguments, calls map_page, prints the
\* verdict and returns the result of the call.
map_page_verbose(m, a, root_table, vaddr, paddr, flags) ==
    LET result == map_page(m, a, root_table, vaddr, paddr, flags) IN result

\* Mutant: the level-0 entry is cleared without testing its validity bit.
unmap_page_level0_unchecked(m, a, table0, vaddr) ==
    LET pte0 == get_entry(deref(m, table0), vpn0(vaddr)) IN
    Outcome(write_entry(m, table0, vpn0(vaddr), pte_new), a, "Ok",
            Some(pte_phys_addr(pte0)), << >>,
            << store_entry(table0, vpn0(vaddr), pte_new), sfence_vma(vaddr) >>)

\* Mutant: only the validity bit of the leaf is cleared.
unmap_page_level0_clears_valid(m, a, table0, vaddr) ==
    LET pte0 == get_entry(deref(m, table0), vpn0(vaddr)) IN
    IF ~pte_is_valid(pte0)
    THEN Outcome(m, a, "Page not mapped", None, << >>, << >>)
    ELSE Outcome(write_entry(m, table0, vpn0(vaddr), pte0 \ PTF_Valid), a,
                 "Ok", Some(pte_phys_addr(pte0)), << >>,
                 << store_entry(table0, vpn0(vaddr), pte0 \ PTF_Valid),
                    sfence_vma(vaddr) >>)

\* Mutant: the whole translation cache is flushed after the store.
unmap_page_level0_flush_all(m, a, table0, vaddr) ==
    LET pte0 == get_entry(deref(m, table0), vpn0(vaddr)) IN
    IF ~pte_is_valid(pte0)
    THEN Outcome(m, a, "Page not mapped", None, << >>, << >>)
    ELSE Outcome(write_entry(m, table0, vpn0(vaddr), pte_new), a, "Ok",
                 Some(pte_phys_addr(pte0)), << >>,
                 << store_entry(table0, vpn0(vaddr), pte_new),
                    sfence_vma_all >>)

\* unmap_page, level 0: clear the leaf and hand back its physical address.
unmap_page_level0(m, a, table0, vaddr) ==
    LET pte0 == get_entry(deref(m, table0), vpn0(vaddr)) IN
    IF ~pte_is_valid(pte0)
    THEN Outcome(m, a, "Page not mapped", None, << >>, << >>)
    ELSE Outcome(write_entry(m, table0, vpn0(vaddr), pte_new), a, "Ok",
                 Some(pte_phys_addr(pte0)), << >>,
                 << store_entry(table0, vpn0(vaddr), pte_new),
                    sfence_vma(vaddr) >>)

\* Mutant: the branch to a level-0 table that has become empty is cleared.
unmap_page_unlinks_empty(m, a, root, vaddr) ==
    LET pte2 == get_entry(deref(m, root), vpn2(vaddr)) IN
    IF ~pte_is_valid(pte2)
    THEN Outcome(m, a, "Page not mapped", None, << >>, << >>)
    ELSE
    LET table1 == pte_phys_addr(pte2)
        pte1 == get_entry(deref(m, table1), vpn1(vaddr)) IN
    IF ~pte_is_valid(pte1)
    THEN Outcome(m, a, "Page not mapped", None, << >>, << >>)
    ELSE
    LET o == unmap_page_level0(m, a, pte_phys_addr(pte1), vaddr) IN
    IF \E i \in DOMAIN deref(o.mem, pte_phys_addr(pte1)) :
           pte_is_valid(deref(o.mem, pte_phys_addr(pte1))[i])
    THEN o
    ELSE [o EXCEPT !.mem = write_entry(o.mem, table1, vpn1(vaddr), pte_new)]

unmap_page(m, a, root, vaddr) ==
    LET pte2 == get_entry(deref(m, root), vpn2(vaddr)) IN
    IF ~pte_is_valid(pte2)
    THEN Outcome(m, a, "Page not mapped", None, << >>, << >>)
    ELSE
    LET table1 == pte_phys_addr(pte2)
        pte1 == get_entry(deref(m, table1), vpn1(vaddr)) IN
    IF ~pte_is_valid(pte1)
    THEN Outcome(m, a, "Page not mapped", None, << >>, << >>)
    ELSE
    unmap_page_level0(m, a, pte_phys_addr(pte1), vaddr)

\* ------------------------------------------------------------------------
\* memory/address_space.rs
\* ------------------------------------------------------------------------

MemoryAreaTypes == {"Code", "Data", "Heap", "Stack", "Shared"}

\* Mutant: code pages are writable as well.
default_flags_code_writable(area_type) ==
    IF area_type = "Code"
    THEN Or(PTF_Valid, Or(PTF_Read, Or(PTF_Write, PTF_Execute)))
    ELSE Or(PTF_Valid, Or(PTF_Read, PTF_Write))

default_flags(area_type) ==
    CASE area_type = "Code" -> Or(PTF_Valid, Or(PTF_Read, PTF_Execute))
      [] area_type \in {"Data", "Heap", "Stack"} ->
            Or(PTF_Valid, Or(PTF_Read, PTF_Write))
      [] area_type = "Shared" -> Or(PTF_Valid, Or(PTF_Read, PTF_Write))

MemoryArea_new(start, end, area_type) ==
    [range |-> [start |-> start, end |-> end], area_type |-> area_type,
     flags |-> default_flags(area_type)]

MemoryArea_size(area) == Sub(area.range.end, area.range.start)

page_count(area) ==
    Div(Sub(Add(MemoryArea_size(area), PAGE_SIZE), One), PAGE_SIZE)

\* What a call on an address space leaves behind: the Outcome of its page
\* operations and the catalog.
SpaceOutcome(o, areas) ==
    [mem |-> o.mem, alloc |-> o.alloc, res |-> o.res, ret |-> o.ret,
     got |-> o.got, trace |-> o.trace, areas |-> areas]

\* Mutant: the root table is left as the frame was found.
AddressSpace_new_unzeroed(m, a) ==
    LET r == allocate(a) IN
    IF r.frame = None
    THEN Outcome(m, r.alloc, "Out of memory", None, << >>, << >>)
    ELSE Outcome(m, r.alloc, "Ok",
                 Some([page_table_paddr |-> r.frame[1], areas |-> << >>]),
                 r.frame, << >>)

\* AddressSpace::new: ret is the new space, or None on "Out of memory".
AddressSpace_new(m, a) ==
    LET r == allocate(a) IN
    IF r.frame = None
    THEN Outcome(m, r.alloc, "Out of memory", None, << >>, << >>)
    ELSE Outcome(zero(m, r.frame[1]), r.alloc, "Ok",
                 Some([page_table_paddr |-> r.frame[1], areas |-> << >>]),
                 r.frame, << >>)

\* Mutant: the data frame is taken only after the page was found unmapped.
map_region_page_looks_first(o, space, start, flags, i) ==
    LET vaddr == Add(start, Mul(W(i), PAGE_SIZE))
        r == allocate(o.alloc)
    IN  IF walk_page_table(o.mem, space.page_table_paddr, vaddr) # None
        THEN Outcome(o.mem, o.alloc, "Page already mapped", None, o.got,
                     o.trace)
        ELSE IF r.frame = None
        THEN Outcome(o.mem, r.alloc, "Out of memory", None, o.got, o.trace)
        ELSE LET paddr == r.frame[1]
                 p == map_page(o.mem, r.alloc, space.page_table_paddr, vaddr,
                               paddr, flags)
             IN  Outcome(p.mem, p.alloc, p.res, None,
                         o.got \o r.frame \o p.got, o.trace \o p.trace)

\* map_region, the body of the loop for page i.
map_region_page(o, space, start, flags, i) ==
    LET vaddr == Add(start, Mul(W(i), PAGE_SIZE))
        r == allocate(o.alloc)
    IN  IF r.frame = None
        THEN Outcome(o.mem, r.alloc, "Out of memory", None, o.got, o.trace)
        ELSE LET paddr == r.frame[1]
                 p == map_page(o.mem, r.alloc, space.page_table_paddr, vaddr,
                               paddr, flags)
             IN  Outcome(p.mem, p.alloc, p.res, None,
                         o.got \o r.frame \o p.got, o.trace \o p.trace)

\* map_region, the loop over pages lo .. hi - 1 in order, left at the first
\* error (the range is folded by halves).
RECURSIVE map_region_pages(_, _, _, _, _, _)
map_region_pages(o, space, start, flags, lo, hi) ==
    IF o.res # "Ok" \/ lo >= hi THEN o
    ELSE IF hi = lo + 1 THEN map_region_page(o, space, start, flags, lo)
    ELSE LET mid == (lo + hi) \div 2
         IN  map_region_pages(map_region_pages(o, space, start, flags, lo, mid),
                              space, start, flags, mid, hi)

\* Mutant: a successful call leaves its own area as the whole catalog.
map_region_replaces_catalog(m, a, space, start, size, area_type) ==
    LET end == Add(start, size)
        area == MemoryArea_new(start, end, area_type)
        o == map_region_pages(Outcome(m, a, "Ok", None, << >>, << >>), space,
                              start, area.flags, 0, Val(page_count(area)))
    IN  SpaceOutcome(o, IF o.res = "Ok" THEN << area >> ELSE space.areas)

\* Mutant: the area is recorded whatever the page loop returned.
map_region_always_records(m, a, space, start, size, area_type) ==
    LET end == Add(start, size)
        area == MemoryArea_new(start, end, area_type)
        o == map_region_pages(Outcome(m, a, "Ok", None, << >>, << >>), space,
                              start, area.flags, 0, Val(page_count(area)))
    IN  SpaceOutcome(o, Append(space.areas, area))

map_region(m, a, space, start, size, area_type) ==
    LET end == Add(start, size)
        area == MemoryArea_new(start, end, area_type)
        o == map_region_pages(Outcome(m, a, "Ok", None, << >>, << >>), space,
                              start, area.flags, 0, Val(page_count(area)))
    IN  SpaceOutcome(o, IF o.res = "Ok" THEN Append(space.areas, area)
                                        ELSE space.areas)

\* Mutant: the identity loop takes a frame for every page, as map_region
\* does, and leaves it unused.
map_region_identity_page_allocates(o, space, start, flags, i) ==
    LET addr == Add(start, Mul(W(i), PAGE_SIZE))
        r == allocate(o.alloc)
        p == map_page(o.mem, r.alloc, space.page_table_paddr, addr, addr, flags)
    IN  Outcome(p.mem, p.alloc, p.res, None, o.got \o r.frame \o p.got,
                o.trace \o p.trace)

\* map_region_identity, the body of the loop for page i.
map_region_identity_page(o, space, start, flags, i) ==
    LET addr == Add(start, Mul(W(i), PAGE_SIZE))
        p == map_page(o.mem, o.alloc, space.page_table_paddr, addr, addr, flags)
    IN  Outcome(p.mem, p.alloc, p.res, None, o.got \o p.got,
                o.trace \o p.trace)

\* map_region_identity, the loop over pages lo .. hi - 1 in order, left at
\* the first error (the range is folded by halves).
RECURSIVE map_region_identity_pages(_, _, _, _, _, _)
map_region_identity_pages(o, space, start, flags, lo, hi) ==
    IF o.res # "Ok" \/ lo >= hi THEN o
    ELSE IF hi = lo + 1
    THEN map_region_identity_page(o, space, start, flags, lo)
    ELSE LET mid == (lo + hi) \div 2
         IN  map_region_identity_pages(
                 map_region_identity_pages(o, space, start, flags, lo, mid),
                 space, start, flags, mid, hi)

map_region_identity(m, a, space, start, size, area_type) ==
    LET vstart == start
        end == Add(start, size)
        area == MemoryArea_new(vstart, end, area_type)
        o == map_region_identity_pages(Outcome(m, a, "Ok", None, << >>, << >>),
                                       space, start, area.flags, 0,
                                       Val(page_count(area)))
    IN  SpaceOutcome(o, IF o.res = "Ok" THEN Append(space.areas, area)
                                        ELSE space.areas)

KERNEL_START == W32(32768, 0)               \* 0x8000_0000
UART_BASE == W32(4096, 0)                   \* 0x1000_0000
KERNEL_WINDOW == {24}                       \* 16 * 1024 * 1024

\* create_kernel_address_space: ret is the space, or None when a step
\* failed; the frames taken before the failure stay taken.
\* create_kernel_address_space after both regions: Ok(addr_space), or the
\* console region's error.
create_kernel_return(n, r1, r2) ==
    IF r2.res # "Ok"
    THEN Outcome(r2.mem, r2.alloc, r2.res, None, n.got \o r1.got \o r2.got,
                 r1.trace \o r2.trace)
    ELSE Outcome(r2.mem, r2.alloc, "Ok",
                 Some([n.ret[1] EXCEPT !.areas = r2.areas]),
                 n.got \o r1.got \o r2.got, r1.trace \o r2.trace)

\* Mutant: the console region is two pages long.
create_kernel_map_uart_two_pages(n, r1) ==
    IF r1.res # "Ok"
    THEN Outcome(r1.mem, r1.alloc, r1.res, None, n.got \o r1.got, r1.trace)
    ELSE create_kernel_return(n, r1,
             map_region_identity(r1.mem, r1.alloc,
                                 [n.ret[1] EXCEPT !.areas = r1.areas],
                                 UART_BASE, Add(PAGE_SIZE, PAGE_SIZE), "Data"))

\* create_kernel_address_space after the kernel window: its error, or the
\* one console page mapped as Data.
create_kernel_map_uart(n, r1) ==
    IF r1.res # "Ok"
    THEN Outcome(r1.mem, r1.alloc, r1.res, None, n.got \o r1.got, r1.trace)
    ELSE create_kernel_return(n, r1,
             map_region_identity(r1.mem, r1.alloc,
                                 [n.ret[1] EXCEPT !.areas = r1.areas],
                                 UART_BASE, PAGE_SIZE, "Data"))

\* create_kernel_address_space after AddressSpace::new: its error, or the
\* 16 MiB kernel window mapped as Code.
create_kernel_map_kernel(n) ==
    IF n.res # "Ok" THEN n
    ELSE create_kernel_map_uart(n,
             map_region_identity(n.mem, n.alloc, n.ret[1], KERNEL_START,
                                 KERNEL_WINDOW, "Code"))

create_kernel_address_space(m, a) ==
    create_kernel_map_kernel(AddressSpace_new(m, a))

\* riscv::register::satp: set(mode, asid, ppn) packs MODE into bits 60-63,
\* ASID into bits 44-59 and PPN into bits 0-43; ppn() reads bits 0-43.
Sv39 == W(8)
satp_set(mode, asid, ppn) ==
    Or(Shl(And(mode, Ones(4)), 60),
       Or(Shl(And(asid, Ones(16)), 44), And(ppn, Ones(44))))
satp_ppn(bits) == And(bits, Ones(44))
satp_asid(bits) == And(Shr(bits, 44), Ones(16))
satp_mode(bits) == Shr(bits, 60)

\* the write of satp, as it appears in the trace of a call
satp_write(bits) ==
    [kind |-> "csrw satp", addr |-> {}, index |-> {}, value |-> bits]

\* Mutant: the root table's address goes into satp without the shift.
activate_unshifted(space) ==
    LET ppn == space.page_table_paddr
        bits == satp_set(Sv39, {}, ppn)
    IN  [satp |-> bits, trace |-> << satp_write(bits), sfence_vma_all >>]

\* AddressSpace::activate: the new satp and the trace of the call.
activate(space) ==
    LET ppn == Shr(space.page_table_paddr, 12)
        bits == satp_set(Sv39, {}, ppn)
    IN  [satp |-> bits, trace |-> << satp_write(bits), sfence_vma_all >>]

\* paging::translate_addr: the walk starts at the root satp names.
translate_addr(m, bits, vaddr) ==
    LET root_ppn == satp_ppn(bits)
        root_paddr == Shl(root_ppn, 12)
    IN  walk_page_table(m, root_paddr, vaddr)

\* unmap_region, the body of the loop for page i.
unmap_region_page(o, space, start, i) ==
    LET vaddr == Add(start, Mul(W(i), PAGE_SIZE))
        p == unmap_page(o.mem, o.alloc, space.page_table_paddr, vaddr)
    IN  Outcome(p.mem, p.alloc, p.res, None, << >>, o.trace \o p.trace)

\* unmap_region, the loop over pages lo .. hi - 1 in order, left at the
\* first error (the range is folded by halves).
RECURSIVE unmap_region_pages(_, _, _, _, _)
unmap_region_pages(o, space, start, lo, hi) ==
    IF o.res # "Ok" \/ lo >= hi THEN o
    ELSE IF hi = lo + 1 THEN unmap_region_page(o, space, start, lo)
    ELSE LET mid == (lo + hi) \div 2
         IN  unmap_region_pages(unmap_region_pages(o, space, start, lo, mid),
                                space, start, mid, hi)

\* areas.retain(|area| !(area.range.start == start))
retain_other_starts(areas, start) ==
    SelectSeq(areas, LAMBDA area : ~(area.range.start = start))

\* Mutant: an area leaves the catalog only when its end matches the call's
\* range too.
unmap_region_matches_range(m, a, space, start, size) ==
    LET count == Div(Sub(Add(size, PAGE_SIZE), One), PAGE_SIZE)
        o == unmap_region_pages(Outcome(m, a, "Ok", None, << >>, << >>), space,
                                start, 0, Val(count))
    IN  SpaceOutcome(o, IF o.res = "Ok"
                        THEN SelectSeq(space.areas,
                                 LAMBDA area :
                                     ~(/\ area.range.start = start
                                       /\ area.range.end = Add(start, size)))
                        ELSE space.areas)

unmap_region(m, a, space, start, size) ==
    LET count == Div(Sub(Add(size, PAGE_SIZE), One), PAGE_SIZE)
        o == unmap_region_pages(Outcome(m, a, "Ok", None, << >>, << >>), space,
                                start, 0, Val(count))
    IN  SpaceOutcome(o, IF o.res = "Ok"
                        THEN retain_other_starts(space.areas, start)
                        ELSE space.areas)

\* ------------------------------------------------------------------------
\* State
\* ------------------------------------------------------------------------

VARIABLES
    kernel_end,       \* boot handoff: the kernel image's end address
    memory_end,       \* boot handoff: the physical memory upper bound
    frame_allocator,  \* MemoryManager.frame_allocator: next_frame, end_frame
    mem,              \* physical memory: table frame address -> PageTable
    root,             \* the test page table of main.rs (None before creation)
    spaces,           \* the AddressSpace objects: page_table_paddr and areas
    satp,             \* the hart's address-translation register
    hart,             \* the hart's control state: pc, ra, sstatus, sie, stvec,
                      \*   the trap registers, the call it is inside
    issued,           \* history: every frame allocate() has returned, in order
    calls,            \* history: number of allocate() calls made directly,
                      \*   or of region-level calls
    freed,            \* history: the frames passed to deallocate(), each with
                      \*   whether allocate() had returned it by then
    mapped,           \* history: page -> the (paddr, flags) map_page installed
    last              \* the last operation: its arguments and its outcome

vars == << kernel_end, memory_end, frame_allocator, mem, root, spaces, satp,
           hart, issued, calls, freed, mapped, last >>

\* ------------------------------------------------------------------------
\* The hart
\* ------------------------------------------------------------------------

\* Code addresses are byte addresses; a statement of the source is one
\* position, and the positions used are named where the boot sequences are
\* defined.  The hart before the first instruction of an entry point:
\* interrupts off in sstatus and in sie, no trap vector, nothing trapped.
HartReset ==
    [build |-> "kernel", pc |-> 0, ra |-> 0, unwind |-> 0, mode |-> "run",
     sie |-> FALSE, spie |-> FALSE, stie |-> FALSE, stvec |-> 0,
     scause |-> "none", stval |-> {}, sepc |-> 0,
     frames |-> << >>, handled |-> << >>]

\* The address of trap_handler, the value init_idt writes to stvec.
TRAP_HANDLER == 4096

\* The length in bytes of the ebreak the test executes.
EBREAK_LENGTH == 2

PageFaults == {"LoadPageFault", "StorePageFault", "InstructionPageFault"}
Exceptions == PageFaults \cup {"Breakpoint", "IllegalInstruction",
                               "UserEnvCall", "LoadMisaligned"}
Interrupts == {"SupervisorTimer", "SupervisorExternal", "SupervisorSoft"}

set_sie(h) == [h EXCEPT !.sie = TRUE]
clear_sie(h) == [h EXCEPT !.sie = FALSE]

enable_interrupts(h) == set_sie(h)
disable_interrupts(h) == clear_sie(h)

\* stvec is written in Direct mode, then the timer interrupt is enabled in
\* sie and the first timer is set.
init_idt(h) == [h EXCEPT !.stvec = TRAP_HANDLER, !.stie = TRUE]

\* A trap taken by the hart: the cause, the trap value and the interrupted
\* pc go to scause, stval and sepc, sstatus.SIE is saved in SPIE and
\* cleared, and control goes to the address in stvec.  ra and the stack are
\* left as the interrupted code had them: ra is the return address of the
\* call executed last, and returning to it leaves `unwind` of the
\* without_interrupts activations.
trap_entry(h, cause, tval, ra, unwind) ==
    [h EXCEPT !.scause = cause, !.stval = tval, !.sepc = h.pc,
              !.spie = h.sie, !.sie = FALSE, !.pc = h.stvec,
              !.ra = ra, !.unwind = unwind, !.mode = "trap"]

Called(handler, cause, stval, sepc) ==
    Some([handler |-> handler, cause |-> cause, stval |-> stval,
          sepc |-> sepc])

\* The address of the loop of hlt_loop.
HLT_LOOP == 8192

\* hlt_loop never returns: the hart stays in its loop, executing wfi.
hlt_loop(h) == [h EXCEPT !.pc = HLT_LOOP, !.mode = "run"]

\* exit_qemu: the SBI shutdown call.
exit_qemu(h) == [h EXCEPT !.mode = "shutdown"]

\* The panic handler of the build: main.rs prints and halts, the test build
\* reports the failure and shuts the machine down.
panic(h) ==
    LET p == [h EXCEPT !.handled = Called("panic", h.scause, h.stval,
                                          h.sepc)]
    IN  IF h.build = "test" THEN exit_qemu(p) ELSE hlt_loop(p)

\* A function's return: control goes to the address in ra.
function_return(h) ==
    [h EXCEPT !.pc = h.ra, !.mode = "run", !.unwind = 0,
              !.frames = SubSeq(h.frames, 1, Len(h.frames) - h.unwind)]

timer_interrupt_handler(h) ==
    [h EXCEPT !.handled = Called("timer_interrupt_handler", h.scause,
                                 h.stval, h.sepc)]

external_interrupt_handler(h) ==
    [h EXCEPT !.handled = Called("external_interrupt_handler", h.scause,
                                 h.stval, h.sepc)]

software_interrupt_handler(h) ==
    [h EXCEPT !.handled = Called("software_interrupt_handler", h.scause,
                                 h.stval, h.sepc)]

breakpoint_handler(h, sepc) ==
    [h EXCEPT !.sepc = sepc + EBREAK_LENGTH,
              !.handled = Called("breakpoint_handler", h.scause, h.stval,
                                 sepc)]

\* Mutant: the page fault handler reports the fault and returns.
page_fault_handler_returns(h, cause, stval, sepc) ==
    [h EXCEPT !.handled = Called("page_fault_handler", cause, stval, sepc)]

page_fault_handler(h, cause, stval, sepc) ==
    hlt_loop([h EXCEPT !.handled = Called("page_fault_handler", cause,
                                          stval, sepc)])

illegal_instruction_handler(h, sepc, stval) == panic(h)

\* trap_handler reads scause, stval and sepc and dispatches on the cause.
trap_handler_dispatch(h) ==
    LET scause == h.scause
        stval == h.stval
        sepc == h.sepc
    IN  CASE scause = "SupervisorTimer" -> timer_interrupt_handler(h)
          [] scause = "SupervisorExternal" -> external_interrupt_handler(h)
          [] scause = "SupervisorSoft" -> software_interrupt_handler(h)
          [] scause = "Breakpoint" -> breakpoint_handler(h, sepc)
          [] scause \in PageFaults ->
                 page_fault_handler(h, scause, stval, sepc)
          [] scause = "IllegalInstruction" ->
                 illegal_instruction_handler(h, sepc, stval)
          [] OTHER -> panic(h)

\* A handler that returns is followed by trap_handler's own return.
trap_handler(h) ==
    LET d == trap_handler_dispatch(h)
    IN  IF d.mode = "trap" THEN function_return(d) ELSE d

\* without_interrupts, statement by statement: the activation keeps the
\* local `sie` and the statement it is at.
without_interrupts_read(h) ==
    [h EXCEPT !.frames = Append(h.frames, [sie |-> h.sie, at |-> "clear"])]

without_interrupts_clear(h) ==
    LET n == Len(h.frames)
        c == IF h.frames[n].sie THEN clear_sie(h) ELSE h
    IN  [c EXCEPT !.frames[n].at = "f"]

without_interrupts_closure_returns(h) ==
    [h EXCEPT !.frames[Len(h.frames)].at = "restore"]

without_interrupts_restore_always(h) ==
    [set_sie(h) EXCEPT !.frames = SubSeq(h.frames, 1, Len(h.frames) - 1)]

without_interrupts_restore(h) ==
    LET n == Len(h.frames)
        r == IF h.frames[n].sie THEN set_sie(h) ELSE h
    IN  [r EXCEPT !.frames = SubSeq(h.frames, 1, n - 1)]

\* ------------------------------------------------------------------------
\* Bounds and the inputs the operations are exercised with
\* ------------------------------------------------------------------------

\* Largest number of frames between kernel_end and memory_end.
MaxFrames == 4

\* allocate() calls tried beyond the capacity of the range.
MaxExtraCalls == 2

KernelBase == W32(32800, 12288)            \* 0x8020_3000

\* kernel_end on a page boundary, just above it, just below the next one.
KernelEnds == {KernelBase, Add(KernelBase, W(1)), Add(KernelBase, W(4095))}

FrameAt(k) == Add(KernelBase, Mul(W(k), PAGE_SIZE))

\* memory_end on and off a page boundary, from below the kernel to
\* MaxFrames pages above it.
MemoryEnds ==
    {Add(FrameAt(k), d) : k \in 0 .. (MaxFrames + 1), d \in {W(0), W(2049)}}

\* The frames of the candidate range, with one below and one above it.
CandidateFrames ==
    {FrameAt(k) : k \in 0 .. (MaxFrames + 2)} \cup {Sub(KernelBase, PAGE_SIZE)}

\* Frames handed to deallocate(): inside the range (allocated or not yet
\* allocated when the call is made) and outside it.
DeallocFrames == {FrameAt(1), FrameAt(2), Sub(KernelBase, PAGE_SIZE)}

\* Frames lying wholly inside [kernel_end, memory_end).
Capacity ==
    Cardinality({f \in CandidateFrames :
                    Geq(f, kernel_end) /\ Geq(memory_end, Add(f, PAGE_SIZE))})

\* Virtual pages: VA_A and VA_B share their level-0 table, VA_C shares only
\* the level-1 table with them.
VA_A == W32(4096, 0)                        \* 0x1000_0000
VA_B == W32(4096, 4096)                     \* 0x1000_1000
VA_C == W32(4128, 0)                        \* 0x1020_0000
VPages == {VA_A, VA_B, VA_C}

PA_1 == W32(33024, 0)                       \* 0x8100_0000
PA_2 == W32(33280, 4096)                    \* 0x8200_1000
PAddrs == {PA_1, PA_2}

FlagSets == {Or(PTF_Read, Or(PTF_Write, PTF_Valid)), PTF_User}

\* Offsets inside a page: both ends and every single bit.
Offsets == {W(0), W(4095)} \cup {W(Pow2(i)) : i \in 0 .. 11}

\* Addresses translated when an operation is observed: the pages operated
\* on, their neighbours, and pages under other level-1 and level-2 entries.
ProbePages ==
    VPages \cup {Add(VA_B, PAGE_SIZE), Sub(VA_A, PAGE_SIZE),
                 W32(32768, 0), {38}, {}}
Probes == {Add(p, o) : p \in ProbePages, o \in {W(0), W(2048), W(4095)}}

NoMapping == [p \in VPages |-> None]

\* Address spaces created, region-level calls made on them, and frames
\* between kernel_end and memory_end when regions are mapped.
MaxSpaces == 1
MaxRegionCalls == 3
MaxRegionFrames == 5

VA_A_Mid == Add(VA_A, W(2048))              \* 0x1000_0800

RegionArg(start, size, area_type) ==
    [start |-> start, size |-> size, area_type |-> area_type]

\* Arguments of the region-level calls: an empty region, one page as code and
\* as data, two pages, one page's length from the middle of a page, and the
\* neighbouring page; every kind of area occurs.
RegionArgs ==
    {RegionArg(VA_A, {}, "Shared"),
     RegionArg(VA_A, PAGE_SIZE, "Code"),
     RegionArg(VA_A, PAGE_SIZE, "Data"),
     RegionArg(VA_A, Add(PAGE_SIZE, PAGE_SIZE), "Stack"),
     RegionArg(VA_A_Mid, PAGE_SIZE, "Data"),
     RegionArg(VA_B, PAGE_SIZE, "Heap")}

\* The (start, size) pairs among them.
RegionRanges == {[start |-> r.start, size |-> r.size] : r \in RegionArgs}

\* Addresses translated when a region operation is observed.
RegionProbes ==
    {Add(Add(VA_A, Mul(W(k), PAGE_SIZE)), o) :
        k \in 0 .. 3, o \in {W(0), W(2047), W(2048), W(4095)}}

Op(op, vaddr, paddr, flags, o) ==
    [op |-> op, vaddr |-> vaddr, paddr |-> paddr, flags |-> flags,
     space |-> 0, size |-> {}, kind |-> "",
     res |-> o.res, ret |-> o.ret, got |-> o.got, trace |-> o.trace]

\* A call on address space number `space`.
SpaceOp(op, space, start, size, kind, o) ==
    [op |-> op, vaddr |-> start, paddr |-> {}, flags |-> {},
     space |-> space, size |-> size, kind |-> kind,
     res |-> o.res, ret |-> o.ret, got |-> o.got, trace |-> o.trace]

Boot == Outcome(<< >>, << >>, "Ok", None, << >>, << >>)

\* ------------------------------------------------------------------------
\* Initial states
\* ------------------------------------------------------------------------

\* memory::init: the allocator is built from the two boot addresses.
InitWith(kends, mends) ==
    /\ kernel_end \in kends
    /\ memory_end \in mends
    /\ frame_allocator = SimpleFrameAllocator_new(kernel_end, memory_end)
    /\ mem = << >>
    /\ root = None
    /\ spaces = << >>
    /\ satp = {}
    /\ hart = HartReset
    /\ issued = << >>
    /\ calls = 0
    /\ freed = {}
    /\ mapped = NoMapping
    /\ last = Op("init", {}, {}, {}, Boot)

\* ------------------------------------------------------------------------
\* Frame allocator calls
\* ------------------------------------------------------------------------

Allocate ==
    /\ calls < MaxFrames + MaxExtraCalls
    /\ LET r == allocate(frame_allocator) IN
       /\ frame_allocator' = r.alloc
       /\ issued' = issued \o r.frame
       /\ calls' = calls + 1
       /\ last' = Op("allocate", {}, {}, {},
                     Outcome(<< >>, << >>,
                             IF r.frame = None THEN "None" ELSE "Some",
                             r.frame, r.frame, << >>))
    /\ UNCHANGED << hart, satp, kernel_end, memory_end, spaces, mem, root, freed, mapped >>

Deallocate ==
    \E frame \in DeallocFrames :
        /\ frame_allocator' = deallocate(frame_allocator, frame)
        /\ freed' = freed \cup {[frame |-> frame,
                                  allocated |-> \E i \in DOMAIN issued :
                                                   issued[i] = frame]}
        /\ last' = Op("deallocate", {}, frame, {}, Boot)
        /\ UNCHANGED << hart, satp, kernel_end, memory_end, spaces, mem, root, issued, calls,
                        mapped >>

InitAlloc == InitWith(KernelEnds, MemoryEnds)
NextAlloc == Allocate \/ Deallocate
SpecAlloc == InitAlloc /\ [][NextAlloc]_vars

\* ------------------------------------------------------------------------
\* Page-level calls on the test table (main.rs, test_page_table_features)
\* ------------------------------------------------------------------------

\* allocate().expect(..), then zero(): a failed allocation panics.
CreateTestTable ==
    /\ root = None
    /\ LET r == allocate(frame_allocator) IN
       /\ r.frame # None
       /\ frame_allocator' = r.alloc
       /\ issued' = issued \o r.frame
       /\ mem' = zero(mem, r.frame[1])
       /\ root' = r.frame
       /\ last' = Op("create_table", {}, {}, {},
                     Outcome(<< >>, << >>, "Ok", r.frame, r.frame, << >>))
    /\ UNCHANGED << hart, satp, kernel_end, memory_end, spaces, calls, freed, mapped >>

MapPage ==
    /\ root # None
    /\ \E vaddr \in VPages, paddr \in PAddrs, flags \in FlagSets :
          LET o == map_page(mem, frame_allocator, root[1], vaddr, paddr, flags)
          IN  /\ mem' = o.mem
              /\ frame_allocator' = o.alloc
              /\ issued' = issued \o o.got
              /\ mapped' = IF o.res = "Ok"
                           THEN [mapped EXCEPT ![vaddr] =
                                    Some([paddr |-> paddr, flags |-> flags])]
                           ELSE mapped
              /\ last' = Op("map_page", vaddr, paddr, flags, o)
    /\ UNCHANGED << hart, satp, kernel_end, memory_end, spaces, root, calls, freed >>

UnmapPage ==
    /\ root # None
    /\ \E vaddr \in VPages :
          LET o == unmap_page(mem, frame_allocator, root[1], vaddr)
          IN  /\ mem' = o.mem
              /\ frame_allocator' = o.alloc
              /\ mapped' = IF o.res = "Ok"
                           THEN [mapped EXCEPT ![vaddr] = None]
                           ELSE mapped
              /\ last' = Op("unmap_page", vaddr, {}, {}, o)
    /\ UNCHANGED << hart, satp, kernel_end, memory_end, spaces, root, issued, calls, freed >>

Init == InitWith({Add(KernelBase, W(1))}, {FrameAt(k) : k \in 1 .. (MaxFrames + 1)})
Next == CreateTestTable \/ MapPage \/ UnmapPage
Spec == Init /\ [][Next]_vars

\* ------------------------------------------------------------------------
\* Region-level calls on address spaces sharing the frame allocator
\* ------------------------------------------------------------------------

\* What a call does to the state outside the catalogs.
ApplyOutcome(o) ==
    /\ mem' = o.mem
    /\ frame_allocator' = o.alloc
    /\ issued' = issued \o o.got
    /\ UNCHANGED << hart, satp, kernel_end, memory_end, root, freed, mapped >>

ApplySpaceOutcome(o) ==
    /\ ApplyOutcome(o)
    /\ calls' = calls + 1

NewSpace ==
    /\ Len(spaces) < MaxSpaces
    /\ LET o == AddressSpace_new(mem, frame_allocator) IN
       /\ spaces' = spaces \o o.ret
       /\ last' = SpaceOp("AddressSpace::new", Len(spaces'), {}, {}, "", o)
       /\ ApplyOutcome(o)
       /\ UNCHANGED calls

MapRegion ==
    \E s \in DOMAIN spaces, r \in RegionArgs :
        /\ calls < MaxRegionCalls
        /\ LET o == map_region(mem, frame_allocator, spaces[s], r.start,
                               r.size, r.area_type)
           IN  /\ spaces' = [spaces EXCEPT ![s].areas = o.areas]
               /\ last' = SpaceOp("map_region", s, r.start, r.size,
                                  r.area_type, o)
               /\ ApplySpaceOutcome(o)

MapRegionIdentity ==
    \E s \in DOMAIN spaces, r \in RegionArgs :
        /\ calls < MaxRegionCalls
        /\ LET o == map_region_identity(mem, frame_allocator, spaces[s],
                                        r.start, r.size, r.area_type)
           IN  /\ spaces' = [spaces EXCEPT ![s].areas = o.areas]
               /\ last' = SpaceOp("map_region_identity", s, r.start, r.size,
                                  r.area_type, o)
               /\ ApplySpaceOutcome(o)

UnmapRegion ==
    \E s \in DOMAIN spaces, r \in RegionRanges :
        /\ calls < MaxRegionCalls
        /\ LET o == unmap_region(mem, frame_allocator, spaces[s], r.start,
                                 r.size)
           IN  /\ spaces' = [spaces EXCEPT ![s].areas = o.areas]
               /\ last' = SpaceOp("unmap_region", s, r.start, r.size, "", o)
               /\ ApplySpaceOutcome(o)

Activate ==
    \E s \in DOMAIN spaces :
        LET r == activate(spaces[s]) IN
        /\ satp' = r.satp
        /\ last' = SpaceOp("activate", s, {}, {}, "",
                           Outcome(mem, frame_allocator, "Ok", None, << >>,
                                   r.trace))
        /\ UNCHANGED << hart, kernel_end, memory_end, frame_allocator, mem,
                        root, spaces, issued, calls, freed, mapped >>

InitRegion ==
    InitWith({Add(KernelBase, W(1))},
             {FrameAt(1), FrameAt(3), FrameAt(MaxRegionFrames + 1)})
NextRegion == NewSpace \/ MapRegion \/ MapRegionIdentity \/ UnmapRegion
SpecRegion == InitRegion /\ [][NextRegion]_vars

\* ------------------------------------------------------------------------
\* Several address spaces filled by map_region from one frame allocator
\* ------------------------------------------------------------------------

MaxSharedSpaces == 2
MaxSharedFrames == 8

NewSharedSpace ==
    /\ Len(spaces) < MaxSharedSpaces
    /\ LET o == AddressSpace_new(mem, frame_allocator) IN
       /\ spaces' = spaces \o o.ret
       /\ last' = SpaceOp("AddressSpace::new", Len(spaces'), {}, {}, "", o)
       /\ ApplyOutcome(o)
       /\ UNCHANGED calls

InitShared ==
    InitWith({Add(KernelBase, W(1))},
             {FrameAt(1), FrameAt(5), FrameAt(MaxSharedFrames + 1)})
NextShared == NewSharedSpace \/ MapRegion \/ UnmapRegion
SpecShared == InitShared /\ [][NextShared]_vars

\* ------------------------------------------------------------------------
\* Page-level calls on the test table next to an address space that is
\* created and activated (main.rs, kernel_main)
\* ------------------------------------------------------------------------

InitFence == Init
NextFence == CreateTestTable \/ MapPage \/ UnmapPage \/ NewSpace \/ Activate
SpecFence == InitFence /\ [][NextFence]_vars

\* ------------------------------------------------------------------------
\* The kernel address space (main.rs, test_kernel_address_space): created,
\* activated, and one address translated through the active context
\* ------------------------------------------------------------------------

\* Largest number of frames between kernel_end and memory_end here.
MaxKernelFrames == 13

\* Pages at both ends of the kernel window, in its second level-0 table,
\* just outside it, the console page and its neighbour, and page 0.
KernelProbePages ==
    {KERNEL_START, Add(KERNEL_START, {21}), Sub(Add(KERNEL_START, {24}), PAGE_SIZE),
     Add(KERNEL_START, {24}), Sub(KERNEL_START, PAGE_SIZE), UART_BASE,
     Add(UART_BASE, PAGE_SIZE), {}}
KernelProbes == {Add(p, o) : p \in KernelProbePages, o \in Offsets}

\* Counted in calls as the two region-level calls it makes.
CreateKernelAddressSpace ==
    /\ Len(spaces) < MaxSpaces
    /\ calls + 2 <= MaxRegionCalls
    /\ LET o == create_kernel_address_space(mem, frame_allocator) IN
       /\ spaces' = spaces \o o.ret
       /\ last' = SpaceOp("create_kernel_address_space", Len(spaces'), {}, {},
                          "", o)
       /\ ApplyOutcome(o)
       /\ calls' = calls + 2

TranslateAddr ==
    \E vaddr \in KernelProbes :
        /\ last.op = "activate"
        /\ last' = Op("translate_addr", vaddr, {}, {},
                      Outcome(mem, frame_allocator, "Ok",
                              translate_addr(mem, satp, vaddr), << >>, << >>))
        /\ UNCHANGED << hart, satp, kernel_end, memory_end, spaces, frame_allocator,
                        mem, root, issued, calls, freed, mapped >>

InitKernel ==
    InitWith({Add(KernelBase, W(1))},
             {FrameAt(k) : k \in 1 .. (MaxKernelFrames + 1)})
NextKernel ==
    CreateKernelAddressSpace \/ MapRegionIdentity \/ Activate \/ TranslateAddr
SpecKernel == InitKernel /\ [][NextKernel]_vars

\* ------------------------------------------------------------------------
\* The test build: _start runs init() and the test runner, which runs
\* test_breakpoint_exception; code outside this crate calls
\* without_interrupts at any point, also from inside its closure; the timer
\* interrupt arrives whenever sstatus.SIE and sie.STIE allow it
\* ------------------------------------------------------------------------

\* Deepest nesting of without_interrupts calls.
MaxNest == 2

\* Code positions of the test build, one per statement.
T_INIT_IDT == 256
T_ENABLE == 272
T_TEST_PRINT == 288
T_EBREAK == 304
T_PASSED == T_EBREAK + EBREAK_LENGTH
T_EXIT == 320

\* Statements are STATEMENT bytes apart; a call that changes the frame
\* allocator or a page table has a second position, INSIDE bytes in, where
\* the hart is while the call is in progress.
STATEMENT == 16
INSIDE == 8
Inside(pc) == pc % STATEMENT = INSIDE
NextStatement(pc) == (pc \div STATEMENT + 1) * STATEMENT

MemoryUnchanged ==
    UNCHANGED << kernel_end, memory_end, frame_allocator, mem, root, spaces,
                 satp, issued, calls, freed, mapped, last >>

\* No without_interrupts call is open, or the innermost one is at `at`.
AtStatement(at) ==
    /\ hart.frames # << >>
    /\ hart.frames[Len(hart.frames)].at = at

\* The statement at pc in the test build.  ebreak traps; ra is then the
\* return address of the print call before it, the position of the ebreak.
test_statement(h) ==
    CASE h.pc = T_INIT_IDT -> [init_idt(h) EXCEPT !.pc = T_ENABLE]
      [] h.pc = T_ENABLE -> [enable_interrupts(h) EXCEPT !.pc = T_TEST_PRINT]
      [] h.pc = T_TEST_PRINT -> [h EXCEPT !.pc = T_EBREAK]
      [] h.pc = T_EBREAK -> trap_entry(h, "Breakpoint", {}, T_EBREAK, 0)
      [] h.pc = T_PASSED -> [h EXCEPT !.pc = T_EXIT]
      [] OTHER -> exit_qemu(h)

TestStatement ==
    /\ hart.mode = "run"
    /\ hart.pc \in {T_INIT_IDT, T_ENABLE, T_TEST_PRINT, T_EBREAK, T_PASSED,
                    T_EXIT}
    /\ hart.frames = << >>
    /\ hart' = test_statement(hart)
    /\ MemoryUnchanged

TrapHandler ==
    /\ hart.mode = "trap"
    /\ hart' = trap_handler(hart)
    /\ MemoryUnchanged

\* Where ra can point when an interrupt arrives: into the code being run
\* (the call executed last has returned to it), or, in a without_interrupts
\* activation that has made no call yet, to that activation's caller.
ReturnPoints(h) ==
    {[ra |-> h.pc, unwind |-> 0]}
    \cup (IF h.frames # << >> /\ h.frames[Len(h.frames)].at = "clear"
          THEN {[ra |-> h.pc, unwind |-> 1]}
          ELSE {})
    \cup (IF Inside(h.pc)
          THEN {[ra |-> NextStatement(h.pc), unwind |-> 0]}
          ELSE {})

TimerInterrupt ==
    /\ hart.mode = "run"
    /\ hart.sie /\ hart.stie
    /\ \E r \in ReturnPoints(hart) :
           hart' = trap_entry(hart, "SupervisorTimer", {}, r.ra, r.unwind)
    /\ MemoryUnchanged

\* hlt_loop: wfi, again and again.
Wfi ==
    /\ hart.mode = "run"
    /\ hart.pc = HLT_LOOP
    /\ hart' = hlt_loop(hart)
    /\ MemoryUnchanged

WithoutInterruptsCall ==
    /\ hart.mode = "run"
    /\ hart.pc # HLT_LOOP
    /\ Len(hart.frames) < MaxNest
    /\ hart.frames = << >> \/ AtStatement("f")
    /\ hart' = without_interrupts_read(hart)
    /\ MemoryUnchanged

WithoutInterruptsClear ==
    /\ hart.mode = "run"
    /\ AtStatement("clear")
    /\ hart' = without_interrupts_clear(hart)
    /\ MemoryUnchanged

WithoutInterruptsClosureReturns ==
    /\ hart.mode = "run"
    /\ AtStatement("f")
    /\ hart' = without_interrupts_closure_returns(hart)
    /\ MemoryUnchanged

WithoutInterruptsRestore ==
    /\ hart.mode = "run"
    /\ AtStatement("restore")
    /\ hart' = without_interrupts_restore(hart)
    /\ MemoryUnchanged

InitTrap ==
    /\ kernel_end = KernelBase
    /\ memory_end = FrameAt(1)
    /\ frame_allocator = SimpleFrameAllocator_new(kernel_end, memory_end)
    /\ mem = << >>
    /\ root = None
    /\ spaces = << >>
    /\ satp = {}
    /\ hart = [HartReset EXCEPT !.build = "test", !.pc = T_INIT_IDT]
    /\ issued = << >>
    /\ calls = 0
    /\ freed = {}
    /\ mapped = NoMapping
    /\ last = Op("init", {}, {}, {}, Boot)

NextTrap ==
    \/ TestStatement
    \/ TrapHandler
    \/ TimerInterrupt
    \/ WithoutInterruptsCall
    \/ WithoutInterruptsClear
    \/ WithoutInterruptsClosureReturns
    \/ WithoutInterruptsRestore
SpecTrap == InitTrap /\ [][NextTrap]_vars

\* ------------------------------------------------------------------------
\* The address and entry accessors of mod.rs applied to bounded inputs, one
\* application per behaviour
\* ------------------------------------------------------------------------

\* Words with at most two bits set, the all-ones word, and the words with
\* one field of the address all ones.
AddrInputs ==
    {{i, j} : i, j \in 0 .. (WIDTH - 1)}
        \cup {{}, Not({}), Ones(12), 12 .. 20, 21 .. 29, 30 .. 38, Ones(39)}

\* Physical page numbers below 2^44.
PpnInputs == {{}, {0}, {43}, {0, 43}, Ones(44), Shr(PA_2, 12)}

\* Every flag byte.
FlagInputs == SUBSET (0 .. 7)

Decode ==
    \E a \in AddrInputs :
        /\ last.op = "init"
        /\ last' = Op("decode", a, {}, {},
                      Outcome(<< >>, << >>, "Ok",
                              Some([page_offset |-> page_offset(a),
                                    vpn0 |-> vpn0(a), vpn1 |-> vpn1(a),
                                    vpn2 |-> vpn2(a)]),
                              << >>, << >>))
        /\ UNCHANGED << hart, satp, kernel_end, memory_end, spaces, frame_allocator, mem,
                        root, issued, calls, freed, mapped >>

\* entry.set(ppn, flags) on a fresh entry, then the five accessors.
SetEntry ==
    \E ppn \in PpnInputs, flags \in FlagInputs :
        LET e == pte_set(ppn, flags) IN
        /\ last.op = "init"
        /\ last' = Op("set", {}, ppn, flags,
                      Outcome(<< >>, << >>, "Ok",
                              Some([entry |-> e, ppn |-> pte_ppn(e),
                                    flags |-> pte_flags(e),
                                    phys_addr |-> pte_phys_addr(e),
                                    is_valid |-> pte_is_valid(e),
                                    is_leaf |-> pte_is_leaf(e)]),
                              << >>, << >>))
        /\ UNCHANGED << hart, satp, kernel_end, memory_end, spaces, frame_allocator, mem,
                        root, issued, calls, freed, mapped >>

InitWord == InitWith({KernelBase}, {FrameAt(1)})
NextWord == Decode \/ SetEntry
SpecWord == InitWord /\ [][NextWord]_vars

\* ------------------------------------------------------------------------
\* walk_page_table on table trees that hold superpage leaves, one walk per
\* behaviour
\* ------------------------------------------------------------------------

WalkRoot == FrameAt(1)
WalkTable1 == FrameAt(2)
WalkTable0 == FrameAt(3)

\* A 1 GiB frame, a 2 MiB frame, a page number that is not aligned to the
\* size of a superpage, and a 4 KiB frame; no table lies at any of them.
WalkFrames == {W32(49152, 0), W32(33344, 0), W32(33344, 4096)}

LeafFlagSets ==
    {Or(PTF_Valid, Or(PTF_Read, Or(PTF_Write, PTF_Execute))),
     Or(PTF_Valid, PTF_Execute)}

\* Entries that are not valid: zero, and read/write with a page number.
InvalidEntries == {pte_new, pte_set(Shr(WalkTable1, 12), Or(PTF_Read, PTF_Write))}

LeafEntries ==
    {pte_set(Shr(f, 12), fl) : f \in WalkFrames, fl \in LeafFlagSets}

Branch(table_paddr) == pte_set(Shr(table_paddr, 12), PTF_Valid)

\* A table with one entry set, at the index the walked addresses use.
TableWith(index, e) == [PageTable_zero EXCEPT ![Val(index)] = e]

\* The trees: the entry on the path of VA_A at each level is invalid, a leaf
\* or a branch, and a table exists only where a branch points.
WalkMemories ==
    {(WalkRoot :> TableWith(vpn2(VA_A), e2)) :
        e2 \in InvalidEntries \cup LeafEntries}
    \cup
    {(WalkRoot :> TableWith(vpn2(VA_A), Branch(WalkTable1)))
        @@ (WalkTable1 :> TableWith(vpn1(VA_A), e1)) :
        e1 \in InvalidEntries \cup LeafEntries}
    \cup
    {(WalkRoot :> TableWith(vpn2(VA_A), Branch(WalkTable1)))
        @@ (WalkTable1 :> TableWith(vpn1(VA_A), Branch(WalkTable0)))
        @@ (WalkTable0 :> TableWith(vpn0(VA_A), e0)) :
        e0 \in InvalidEntries \cup LeafEntries \cup {Branch(WalkTable1)}}

\* Addresses on the path of VA_A, under its level-1 table only, and under
\* its level-2 entry only.
WalkAddrs ==
    {Add(p, o) : p \in {VA_A, VA_B, VA_C, W32(8192, 0)}, o \in Offsets}

InitWalk ==
    /\ kernel_end = KernelBase
    /\ memory_end = FrameAt(4)
    /\ frame_allocator = [next_frame |-> Div(FrameAt(4), PAGE_SIZE),
                          end_frame |-> Div(FrameAt(4), PAGE_SIZE)]
    /\ mem \in WalkMemories
    /\ root = Some(WalkRoot)
    /\ spaces = << >>
    /\ satp = {}
    /\ hart = HartReset
    /\ issued = << WalkRoot, WalkTable1, WalkTable0 >>
    /\ calls = 0
    /\ freed = {}
    /\ mapped = NoMapping
    /\ last = Op("init", {}, {}, {}, Boot)

WalkPageTable ==
    \E vaddr \in WalkAddrs :
        /\ last.op = "init"
        /\ last' = Op("walk_page_table", vaddr, {}, {},
                      Outcome(mem, frame_allocator, "Ok",
                              walk_page_table(mem, root[1], vaddr),
                              << >>, << >>))
        /\ UNCHANGED << hart, satp, kernel_end, memory_end, spaces, frame_allocator, mem,
                        root, issued, calls, freed, mapped >>

NextWalk == WalkPageTable
SpecWalk == InitWalk /\ [][NextWalk]_vars

\* ------------------------------------------------------------------------
\* The verbose variants, on the trees above and on trees built by map_page
\* ------------------------------------------------------------------------

\* Addresses walked: on the path of VA_A, beside it at each level, at both
\* ends of the page.
VerboseAddrs ==
    {Add(p, o) : p \in {VA_A, VA_B, VA_C, W32(8192, 0)},
                 o \in {W(0), W(4095)}}

\* No leaf above level 0 under the root. map_page and unmap_page descend
\* through every valid entry of levels 2 and 1 without testing is_leaf, so
\* they are called on trees without superpages only, as the kernel does.
NoSuperpage(m, root_paddr) ==
    LET valid2 == {i \in DOMAIN m[root_paddr] :
                      pte_is_valid(m[root_paddr][i])}
        Table1(i) == m[pte_phys_addr(m[root_paddr][i])]
    IN  /\ {i \in valid2 : pte_is_leaf(m[root_paddr][i])} = {}
        /\ {i \in valid2 :
               {j \in DOMAIN Table1(i) :
                   pte_is_valid(Table1(i)[j]) /\ pte_is_leaf(Table1(i)[j])}
                  # {}} = {}

WalkPageTableVerbose ==
    /\ root # None
    /\ \E vaddr \in VerboseAddrs :
          /\ last' = Op("walk_page_table_verbose", vaddr, {}, {},
                        Outcome(mem, frame_allocator, "Ok",
                                walk_page_table_verbose(mem, root[1], vaddr),
                                << >>, << >>))
          /\ UNCHANGED << hart, satp, kernel_end, memory_end, spaces,
                          frame_allocator, mem, root, issued, calls, freed,
                          mapped >>

MapPageVerbose ==
    /\ root # None
    /\ NoSuperpage(mem, root[1])
    /\ \E vaddr \in VPages, paddr \in PAddrs, flags \in FlagSets :
          LET o == map_page_verbose(mem, frame_allocator, root[1], vaddr,
                                   paddr, flags)
          IN  /\ mem' = o.mem
              /\ frame_allocator' = o.alloc
              /\ issued' = issued \o o.got
              /\ mapped' = IF o.res = "Ok"
                           THEN [mapped EXCEPT ![vaddr] =
                                    Some([paddr |-> paddr, flags |-> flags])]
                           ELSE mapped
              /\ last' = Op("map_page_verbose", vaddr, paddr, flags, o)
    /\ UNCHANGED << hart, satp, kernel_end, memory_end, spaces, root, calls,
                    freed >>

UnmapPageBetween ==
    /\ root # None
    /\ NoSuperpage(mem, root[1])
    /\ UnmapPage

InitVerbose ==
    \/ InitWalk
    \/ InitWith({Add(KernelBase, W(1))}, {FrameAt(1), FrameAt(4)})
NextVerbose ==
    CreateTestTable \/ MapPageVerbose \/ UnmapPageBetween
        \/ WalkPageTableVerbose
SpecVerbose == InitVerbose /\ [][NextVerbose]_vars

\* translate through the root table of address space s
translate(m, s, vaddr) ==
    walk_page_table(m, spaces[s].page_table_paddr, vaddr)

\* ceil(size / 4096) as a number, and the address the call uses for page j.
RegionPageCount(size) == Val(Shr(Add(size, W(4095)), 12))
RegionPage(start, j) == Add(start, Mul(W(j), PAGE_SIZE))

\* The level-0 entry on the path of vaddr in address space s (the path's
\* tables exist).
LeafEntry(m, s, vaddr) ==
    LET pte2 == m[spaces[s].page_table_paddr][Val(vpn2(vaddr))]
        pte1 == m[pte_phys_addr(pte2)][Val(vpn1(vaddr))]
    IN  m[pte_phys_addr(pte1)][Val(vpn0(vaddr))]

\* translate through the test table
Walk(m, vaddr) == walk_page_table(m, root[1], vaddr)

\* The level-0 entry on the path of vaddr (the path's tables exist).
EntryAt0(m, vaddr) ==
    LET pte2 == get_entry(deref(m, root[1]), vpn2(vaddr))
        pte1 == get_entry(deref(m, pte_phys_addr(pte2)), vpn1(vaddr))
    IN  get_entry(deref(m, pte_phys_addr(pte1)), vpn0(vaddr))

\* Bits lo..hi of a word.
Field(a, lo, hi) == {b \in a : lo <= b /\ b <= hi}

\* Equal level-2 and level-1 indices (bits 21-38), different level-0 index.
Siblings(u, v) ==
    /\ Field(u, 21, 38) = Field(v, 21, 38)
    /\ Field(u, 12, 20) # Field(v, 12, 20)

PageOf(a) == a \ Ones(12)

NoDup(seq) ==
    \A i, j \in DOMAIN seq : i # j => seq[i] # seq[j]

\* ------------------------------------------------------------------------
\* Claims
\* ------------------------------------------------------------------------

\* C1: when map_page of a page-aligned virtual address to a page-aligned
\* physical address succeeds, walk_page_table on the same root returns
\* physical + offset for the virtual address plus every offset of the page.
C1_MapThenTranslate ==
    (last.op = "map_page" /\ last.res = "Ok") =>
        \A o \in Offsets :
            Walk(mem, Add(last.vaddr, o)) = Some(Add(last.paddr, o))

C1_Witness ==
    /\ last.op = "map_page" /\ last.res = "Ok"
    /\ last.vaddr = VA_C /\ last.paddr = PA_2 /\ last.flags = PTF_User
    /\ mapped[VA_A] # None

\* C2: map_page of a virtual address that is mapped fails with "Page already
\* mapped" whatever physical address and flags it passes, and the address
\* still translates to the physical address of the first mapping.
C2_RemapFails ==
    [][(last'.op = "map_page" /\ mapped[last'.vaddr] # None) =>
          /\ last'.res = "Page already mapped"
          /\ \A o \in Offsets :
                Walk(mem', Add(last'.vaddr, o))
                    = Some(Add(mapped[last'.vaddr][1].paddr, o))]_vars

C2_Witness ==
    /\ last.op = "map_page" /\ last.res = "Page already mapped"
    /\ mapped[last.vaddr] # None
    /\ mapped[last.vaddr][1].paddr # last.paddr
    /\ mapped[last.vaddr][1].flags # last.flags

\* C3: unmap_page of a virtual address that is not mapped fails with "Page
\* not mapped", changes no table entry and no allocator state, and the
\* address is still not mapped afterwards.
C3_UnmapUnmapped ==
    [][(last'.op = "unmap_page" /\ mapped[last'.vaddr] = None) =>
          /\ last'.res = "Page not mapped"
          /\ last'.ret = None
          /\ mem' = mem
          /\ frame_allocator' = frame_allocator
          /\ \A o \in Offsets : Walk(mem', Add(last'.vaddr, o)) = None]_vars

\* The miss is at level 0: the page's level-0 table holds another mapping.
C3_Witness ==
    /\ last.op = "unmap_page" /\ last.res = "Page not mapped"
    /\ last.vaddr = VA_B
    /\ mapped[VA_A] # None

\* C4: unmap_page of a mapped page succeeds, returns the physical page
\* address map_page installed, leaves the level-0 entry all zero, after which
\* the page is not mapped and a new map_page of the same address succeeds.
C4_UnmapMapped ==
    [][/\ (last'.op = "unmap_page" /\ mapped[last'.vaddr] # None) =>
             /\ last'.res = "Ok"
             /\ last'.ret = Some(mapped[last'.vaddr][1].paddr)
             /\ EntryAt0(mem', last'.vaddr) = {}
             /\ \A o \in Offsets : Walk(mem', Add(last'.vaddr, o)) = None
       /\ (/\ last.op = "unmap_page" /\ last.res = "Ok"
           /\ last'.op = "map_page" /\ last'.vaddr = last.vaddr) =>
             last'.res = "Ok"]_vars

\* A page unmapped from a level-0 table that holds another page.
C4_Witness ==
    /\ last.op = "unmap_page" /\ last.res = "Ok"
    /\ last.vaddr = VA_B /\ last.ret = Some(PA_2)
    /\ mapped[VA_A] # None

\* C5: two virtual addresses with equal level-2 and level-1 indices and
\* different level-0 indices can both be mapped, in either order; each then
\* translates to its own physical address, and mapping or unmapping one never
\* changes the translation of the other.
C5_SiblingIsolation ==
    [][\A u, v \in VPages :
          (Siblings(u, v) /\ last'.op \in {"map_page", "unmap_page"}
                          /\ last'.vaddr = v) =>
             /\ \A o \in Offsets :
                   Walk(mem', Add(u, o)) = Walk(mem, Add(u, o))
             /\ (last'.op = "map_page" /\ mapped[v] = None /\ mapped[u] # None)
                   => last'.res = "Ok"
             /\ (mapped'[u] # None /\ mapped'[v] # None) =>
                   \A o \in Offsets :
                      /\ Walk(mem', Add(u, o)) = Some(Add(mapped'[u][1].paddr, o))
                      /\ Walk(mem', Add(v, o)) = Some(Add(mapped'[v][1].paddr, o))
      ]_vars

\* The lower sibling was mapped after the upper one, to another frame.
C5_Witness ==
    /\ last.op = "map_page" /\ last.res = "Ok" /\ last.vaddr = VA_A
    /\ mapped[VA_B] # None
    /\ mapped[VA_B][1].paddr # last.paddr

\* C6: a successful map_page changes the result of translate only inside the
\* page it maps: every address outside it translates as before (not mapped
\* stays not mapped, mapped stays at the same physical address).
C6_MapFrame ==
    [][(last'.op = "map_page" /\ last'.res = "Ok") =>
          \A a \in Probes :
             PageOf(a) # PageOf(last'.vaddr) =>
                Walk(mem', a) = Walk(mem, a)]_vars

\* 0x1000_0000 is mapped, 0x1000_1000 stays not mapped, 0x1020_0000 stays
\* mapped.
C6_Witness ==
    /\ last.op = "map_page" /\ last.res = "Ok" /\ last.vaddr = VA_A
    /\ Walk(mem, VA_B) = None
    /\ Walk(mem, Add(VA_A, W(4095))) = Some(Add(last.paddr, W(4095)))
    /\ mapped[VA_C] # None

\* C7: after a successful map_region_identity(phys_start, size, kind),
\* translate(v) = v for every address v of every page that holds an address
\* of [phys_start, phys_start + size).
C7_IdentityTranslates ==
    (last.op = "map_region_identity" /\ last.res = "Ok") =>
        \A v \in RegionProbes :
            (\E b \in RegionProbes :
                /\ PageOf(b) = PageOf(v)
                /\ Geq(b, last.vaddr)
                /\ Lt(b, Add(last.vaddr, last.size)))
            => translate(mem, last.space, v) = Some(v)

\* The first page boundary at or after kernel_end.
FirstBoundary ==
    CHOOSE f \in CandidateFrames :
        /\ Geq(f, kernel_end)
        /\ \A g \in CandidateFrames : Geq(g, kernel_end) => Geq(g, f)

\* C8: one allocator never returns the same frame twice, whatever
\* deallocate() calls come in between; over a range of exactly k frames the
\* first k allocate() calls succeed and call k+1 reports out-of-memory.
C8_NoReuseAndCapacity ==
    /\ NoDup(issued)
    /\ last.op = "allocate" => (last.ret # None <=> calls <= Capacity)

C8_Witness ==
    /\ last.op = "allocate" /\ last.ret = None
    /\ Capacity = 3 /\ calls = 4 /\ Len(issued) = 3
    /\ freed # {}

\* C9: every frame allocate() returns is page-aligned, at or above
\* kernel_end and below memory_end rounded down to a page boundary; the first
\* one is the first page boundary at or after kernel_end.
C9_FramesInRange ==
    /\ \A i \in DOMAIN issued :
          /\ And(issued[i], Ones(12)) = {}
          /\ Geq(issued[i], kernel_end)
          /\ Lt(issued[i], memory_end \ Ones(12))
    /\ issued # << >> => issued[1] = FirstBoundary

C9_Witness ==
    /\ Len(issued) >= 2
    /\ And(kernel_end, Ones(12)) # {}
    /\ And(memory_end, Ones(12)) # {}
    /\ last.op = "allocate" /\ last.ret = None

\* C10: deallocate leaves the allocator (cursor and bound) unchanged for any
\* frame argument; a frame that was allocated and then deallocated is never
\* returned by a later allocate(), and an exhausted allocator stays exhausted
\* across deallocate.
C10_DeallocateNoOp ==
    [][/\ last'.op = "deallocate" =>
             /\ frame_allocator' = frame_allocator
             /\ allocate(frame_allocator).frame = None =>
                   allocate(frame_allocator').frame = None
       /\ (last'.op = "allocate" /\ last'.ret # None) =>
             \A x \in freed : x.allocated => x.frame # last'.ret[1]]_vars

\* An allocation that follows the deallocate of an allocated frame.
C10_Witness ==
    /\ last.op = "allocate" /\ last.ret # None
    /\ \E x \in freed : x.allocated

\* C11: page_offset(a) is bits 0-11 of a, vpn0(a) bits 12-20, vpn1(a) bits
\* 21-29 and vpn2(a) bits 30-38, so that page_offset + (vpn0 << 12) +
\* (vpn1 << 21) + (vpn2 << 30) equals a modulo 2^39; each index is below 512
\* and the offset below 4096.
C11_AddressFields ==
    last.op = "decode" =>
        LET a == last.vaddr
            d == last.ret[1]
        IN  /\ d.page_offset = Field(a, 0, 11)
            /\ Shl(d.vpn0, 12) = Field(a, 12, 20)
            /\ Shl(d.vpn1, 21) = Field(a, 21, 29)
            /\ Shl(d.vpn2, 30) = Field(a, 30, 38)
            /\ Add(Add(d.page_offset, Shl(d.vpn0, 12)),
                   Add(Shl(d.vpn1, 21), Shl(d.vpn2, 30))) = And(a, Ones(39))
            /\ \A x \in {d.vpn0, d.vpn1, d.vpn2} : Lt(x, W(PAGE_TABLE_ENTRIES))
            /\ Lt(d.page_offset, PAGE_SIZE)

\* An address with bits on both sides of the 39-bit boundary.
C11_Witness ==
    /\ last.op = "decode"
    /\ last.vaddr = {38, 39}
    /\ last.ret[1].vpn2 = {8}

\* C13: after set(ppn, flags) with ppn below 2^44 and flags within bits 0-7,
\* ppn() returns ppn, flags() returns flags, phys_addr() returns ppn << 12,
\* is_valid() is true exactly when bit 0 of flags is set and is_leaf() exactly
\* when one of bits 1-3 of flags is set.
C13_EntryRoundTrip ==
    last.op = "set" =>
        LET ppn == last.paddr
            flags == last.flags
            r == last.ret[1]
        IN  /\ r.ppn = ppn
            /\ r.flags = flags
            /\ r.phys_addr = Shl(ppn, 12)
            /\ r.is_valid <=> 0 \in flags
            /\ r.is_leaf <=> (flags \cap {1, 2, 3} # {})

\* The largest page number with a flag byte that is a leaf but not valid.
C13_Witness ==
    /\ last.op = "set"
    /\ last.paddr = Ones(44)
    /\ last.flags = {2, 7}
    /\ ~last.ret[1].is_valid /\ last.ret[1].is_leaf

\* C12: when the level-2 entry is a valid leaf, walk_page_table returns
\* (entry PPN << 12) + (address & 0x3FFF_FFFF) and reads no lower table; when
\* the level-2 entry is a branch and the level-1 entry a valid leaf, it
\* returns (entry PPN << 12) + (address & 0x1F_FFFF); an entry that is not
\* valid at any of the three levels gives not-mapped.
C12_SuperpageWalk ==
    last.op = "walk_page_table" =>
        LET v == last.vaddr
            e2 == mem[WalkRoot][Val(Field(v, 30, 38)) \div Pow2(30)]
            at1 == 0 \notin e2 \/ e2 \cap {1, 2, 3} # {}
            e1 == mem[WalkTable1][Val(Field(v, 21, 29)) \div Pow2(21)]
            at0 == 0 \notin e1 \/ e1 \cap {1, 2, 3} # {}
            e0 == mem[WalkTable0][Val(Field(v, 12, 20)) \div Pow2(12)]
            Base(e) == Shl(And(Shr(e, 10), Ones(44)), 12)
        IN  IF 0 \notin e2 THEN last.ret = None
            ELSE IF e2 \cap {1, 2, 3} # {}
            THEN /\ last.ret = Some(Add(Base(e2), And(v, W32(16383, 65535))))
                 /\ DOMAIN mem = {WalkRoot}
            ELSE IF 0 \notin e1 THEN last.ret = None
            ELSE IF e1 \cap {1, 2, 3} # {}
            THEN /\ last.ret = Some(Add(Base(e1), And(v, W32(31, 65535))))
                 /\ DOMAIN mem = {WalkRoot, WalkTable1}
            ELSE IF 0 \notin e0 THEN last.ret = None
            ELSE last.ret = Some(Add(Base(e0), And(v, W(4095))))

\* A 1 GiB leaf whose page number is not 1 GiB aligned, walked at an address
\* with bits set above bit 21: the offset carries into the page number.
C12_Witness ==
    /\ last.op = "walk_page_table"
    /\ last.vaddr = Add(VA_C, W(4095))
    /\ DOMAIN mem = {WalkRoot}
    /\ mem[WalkRoot][0] = pte_set(Shr(W32(33344, 4096), 12),
                                  Or(PTF_Valid, PTF_Execute))
    /\ last.ret = Some(Add(W32(33344, 4096), Add(VA_C, W(4095))))

\* C14: a successful map_page or unmap_page issues exactly one single-address
\* invalidation, for the target virtual address and after the store of the
\* level-0 entry, and no full flush; a failed map_page or unmap_page issues
\* no invalidation; a full flush is issued by activate() only.
C14_FenceScope ==
    LET t == last.trace
        Kinds(k) == {i \in DOMAIN t : t[i].kind = k}
    IN  /\ (last.op \in {"map_page", "unmap_page"} /\ last.res = "Ok") =>
              /\ Cardinality(Kinds("sfence.vma addr")) = 1
              /\ Kinds("sfence.vma") = {}
              /\ \E i, j \in DOMAIN t :
                    /\ i < j
                    /\ t[i].kind = "store"
                    /\ t[i].index = Shr(Field(last.vaddr, 12, 20), 12)
                    /\ mem[t[i].addr][Val(t[i].index)] = t[i].value
                    /\ t[j].kind = "sfence.vma addr"
                    /\ t[j].addr = last.vaddr
        /\ (last.op \in {"map_page", "unmap_page"} /\ last.res # "Ok") =>
              Kinds("sfence.vma addr") \cup Kinds("sfence.vma") = {}
        /\ Kinds("sfence.vma") # {} => last.op = "activate"

\* A page unmapped from the test table while an address space is active.
C14_Witness ==
    /\ last.op = "unmap_page" /\ last.res = "Ok" /\ last.vaddr = VA_B
    /\ satp # {}
    /\ Len(last.trace) = 2

\* C15: AddressSpace::new takes exactly one frame from the allocator, makes it
\* the root table with all 512 entries invalid and returns a space with an
\* empty area catalog; when the allocator is exhausted it returns
\* out-of-memory and no address space is created.
C15_NewSpace ==
    [][last'.op = "AddressSpace::new" =>
          IF Lt(frame_allocator.next_frame, frame_allocator.end_frame)
          THEN LET f == Mul(frame_allocator.next_frame, PAGE_SIZE) IN
               /\ last'.res = "Ok"
               /\ issued' = Append(issued, f)
               /\ frame_allocator' =
                     [frame_allocator EXCEPT
                         !.next_frame = Add(frame_allocator.next_frame, One)]
               /\ spaces' = Append(spaces, [page_table_paddr |-> f,
                                            areas |-> << >>])
               /\ f \in DOMAIN mem'
               /\ \A i \in 0 .. 511 : 0 \notin mem'[f][i]
               /\ \A t \in DOMAIN mem : mem'[t] = mem[t]
          ELSE /\ last'.res = "Out of memory"
               /\ spaces' = spaces
               /\ mem' = mem
               /\ issued' = issued
               /\ frame_allocator' = frame_allocator]_vars

\* An address space created after pages were mapped through the test table.
C15_Witness ==
    /\ last.op = "AddressSpace::new" /\ last.res = "Ok"
    /\ Len(spaces) = 1 /\ spaces[1].areas = << >>
    /\ mapped[VA_A] # None
    /\ Len(issued) = 4

\* C16: map_region and map_region_identity add the area to the catalog only
\* when every one of the ceil(size / 4096) pages was mapped; when page i
\* fails the call returns that error at once without attempting later pages,
\* the catalog is unchanged, and pages 0..i-1 of the call stay mapped.
C16_AreaRecordedOnSuccess ==
    [][last'.op \in {"map_region", "map_region_identity"} =>
          LET s == last'.space
              n == RegionPageCount(last'.size)
              p(j) == RegionPage(last'.vaddr, j)
              Before(v) == translate(mem, s, v)
              After(v) == translate(mem', s, v)
              Fences == {k \in DOMAIN last'.trace :
                            last'.trace[k].kind = "sfence.vma addr"}
          IN  IF last'.res = "Ok"
              THEN /\ \A j \in 0 .. (n - 1) :
                         Before(p(j)) = None /\ After(p(j)) # None
                   /\ Len(spaces'[s].areas) = Len(spaces[s].areas) + 1
                   /\ SubSeq(spaces'[s].areas, 1, Len(spaces[s].areas))
                         = spaces[s].areas
                   /\ LET area == spaces'[s].areas[Len(spaces'[s].areas)] IN
                      /\ area.range.start = last'.vaddr
                      /\ area.range.end = Add(last'.vaddr, last'.size)
                      /\ area.area_type = last'.kind
              ELSE /\ spaces'[s].areas = spaces[s].areas
                   /\ \E i \in 0 .. (n - 1) :
                         /\ \A j \in 0 .. (i - 1) :
                               Before(p(j)) = None /\ After(p(j)) # None
                         /\ \/ /\ last'.res = "Page already mapped"
                               /\ Before(p(i)) # None
                            \/ last'.res = "Out of memory"
                         /\ After(p(i)) = Before(p(i))
                         /\ \A j \in (i + 1) .. (n - 1) :
                               After(p(j)) = Before(p(j))
                         /\ Cardinality(Fences) = i]_vars

\* map_region of two pages fails at its second page, which an identity
\* mapping holds, after it has mapped the first.
C16_Witness ==
    /\ last.op = "map_region" /\ last.res = "Page already mapped"
    /\ last.vaddr = VA_A /\ last.size = Add(PAGE_SIZE, PAGE_SIZE)
    /\ translate(mem, 1, VA_A) # None
    /\ translate(mem, 1, VA_B) = Some(VA_B)
    /\ Len(spaces[1].areas) = 1

\* C17: every leaf entry installed by map_region or map_region_identity has
\* exactly the flags valid + read + execute when the kind is Code and exactly
\* valid + read + write when the kind is Data, Heap, Stack or Shared; no
\* other bit below the page number is set.
C17_LeafFlags ==
    [][/\ \A k \in MemoryAreaTypes :
             default_flags(k) = IF k = "Code" THEN {0, 1, 3} ELSE {0, 1, 2}
       /\ last'.op \in {"map_region", "map_region_identity"} =>
             \A j \in 0 .. (RegionPageCount(last'.size) - 1) :
                LET v == RegionPage(last'.vaddr, j) IN
                (/\ translate(mem, last'.space, v) = None
                 /\ translate(mem', last'.space, v) # None) =>
                    LeafEntry(mem', last'.space, v) \cap (0 .. 9)
                        = IF last'.kind = "Code" THEN {0, 1, 3} ELSE {0, 1, 2}
      ]_vars

\* A code page mapped next to a heap page.
C17_Witness ==
    /\ last.op = "map_region" /\ last.res = "Ok" /\ last.kind = "Code"
    /\ LeafEntry(mem, 1, VA_A) \cap (0 .. 9) = {0, 1, 3}
    /\ LeafEntry(mem, 1, VA_B) \cap (0 .. 9) = {0, 1, 2}
    /\ \E i \in DOMAIN spaces[1].areas : spaces[1].areas[i].area_type = "Heap"

\* The tables a page-by-page mapping of the region has to create: one
\* level-1 table per root index without a valid entry, one level-0 table
\* per (root index, level-1 index) without a valid path.
NeededTables(m, root_paddr, start, size) ==
    LET pages == {RegionPage(start, j) : j \in 0 .. (RegionPageCount(size) - 1)}
        root_table == m[root_paddr]
        NoLevel1(p) == ~pte_is_valid(root_table[Val(vpn2(p))])
        NoLevel0(p) ==
            \/ NoLevel1(p)
            \/ ~pte_is_valid(m[pte_phys_addr(root_table[Val(vpn2(p))])]
                                [Val(vpn1(p))])
    IN  Cardinality({vpn2(p) : p \in {q \in pages : NoLevel1(q)}})
        + Cardinality({<< vpn2(p), vpn1(p) >> :
                          p \in {q \in pages : NoLevel0(q)}})

\* Every frame the call took became a page table, and the allocator's cursor
\* moved by exactly that many frames.
OnlyTablesAllocated ==
    LET new == DOMAIN mem' \ DOMAIN mem IN
    /\ {last'.got[k] : k \in DOMAIN last'.got} = new
    /\ Len(last'.got) = Cardinality(new)
    /\ issued' = issued \o last'.got
    /\ frame_allocator'.next_frame
          = Add(frame_allocator.next_frame, W(Cardinality(new)))
    /\ frame_allocator'.end_frame = frame_allocator.end_frame

\* Every leaf store of the call, with the fence that follows it, wrote an
\* entry whose physical address is the page of the fenced virtual address,
\* and the walk of that page returns the page itself.
LeavesAreIdentity(s) ==
    \A k \in DOMAIN last'.trace :
        last'.trace[k].kind = "store" =>
            LET v == last'.trace[k + 1].addr IN
            /\ last'.trace[k + 1].kind = "sfence.vma addr"
            /\ last'.trace[k].index = vpn0(v)
            /\ pte_phys_addr(last'.trace[k].value) = PageOf(v)
            /\ walk_page_table(mem', spaces'[s].page_table_paddr, PageOf(v))
                  = Some(PageOf(v))

\* C18: map_region_identity takes frames from the allocator for page tables
\* only, as many as the level-1 and level-0 tables its pages lacked, and
\* every leaf it installs points at the physical page equal to the virtual
\* page; a successful create_kernel_address_space on an allocator that has
\* handed out nothing takes exactly 12 frames: the root, 1 + 8 tables for
\* the 16 MiB window and 1 + 1 tables for the console page.
C18_IdentityAllocatesTablesOnly ==
    [][/\ last'.op = "map_region_identity" =>
             /\ OnlyTablesAllocated
             /\ LeavesAreIdentity(last'.space)
             /\ last'.res = "Ok" =>
                   Len(last'.got)
                     = NeededTables(mem, spaces[last'.space].page_table_paddr,
                                    last'.vaddr, last'.size)
       /\ last'.op = "create_kernel_address_space" =>
             /\ OnlyTablesAllocated
             /\ last'.res = "Ok" =>
                   /\ LeavesAreIdentity(last'.space)
                   /\ issued = << >> => Len(issued') = 12
                   /\ LET r == spaces'[last'.space].page_table_paddr
                          empty == [t \in {r} |->
                                       [i \in DOMAIN mem'[r] |-> {}]]
                      IN  Len(last'.got)
                            = 1 + NeededTables(empty, r, KERNEL_START,
                                               KERNEL_WINDOW)
                                + NeededTables(empty, r, UART_BASE, PAGE_SIZE)
                   /\ LET root_table == mem'[spaces'[last'.space].page_table_paddr]
                          Valid(t) == {i \in DOMAIN t : pte_is_valid(t[i])}
                          Level1(i) == mem'[pte_phys_addr(root_table[i])]
                      IN  /\ Valid(root_table)
                               = {Val(vpn2(UART_BASE)), Val(vpn2(KERNEL_START))}
                          /\ Cardinality(Valid(Level1(Val(vpn2(KERNEL_START)))))
                               = 8
                          /\ Cardinality(Valid(Level1(Val(vpn2(UART_BASE)))))
                               = 1
      ]_vars

\* The kernel address space was created from an untouched allocator: 12
\* frames are out, all of them page tables, and both ends of the window and
\* the console page translate to themselves.
C18_Witness ==
    /\ last.op = "create_kernel_address_space" /\ last.res = "Ok"
    /\ Len(issued) = 12 /\ Cardinality(DOMAIN mem) = 12
    /\ translate(mem, 1, KERNEL_START) = Some(KERNEL_START)
    /\ translate(mem, 1, Sub(Add(KERNEL_START, KERNEL_WINDOW), One))
          = Some(Sub(Add(KERNEL_START, KERNEL_WINDOW), One))
    /\ translate(mem, 1, UART_BASE) = Some(UART_BASE)

\* The positions of a catalog whose area does not start at `start`, and the
\* k-th of them in catalog order.
KeptPositions(areas, start) ==
    {i \in DOMAIN areas : areas[i].range.start # start}
KeptPosition(areas, start, k) ==
    CHOOSE i \in KeptPositions(areas, start) :
        Cardinality({j \in KeptPositions(areas, start) : j <= i}) = k

\* C19: after a successful unmap_region(start, size) the ceil(size / 4096)
\* pages from start, all mapped before, are not mapped; the catalog has lost
\* every area whose recorded start equals start, whatever its end, and kept
\* every other area in order; no other page's translation changed.
C19_UnmapRegionByStart ==
    [][(last'.op = "unmap_region" /\ last'.res = "Ok") =>
          LET s == last'.space
              start == last'.vaddr
              n == RegionPageCount(last'.size)
              pages == {PageOf(RegionPage(start, j)) : j \in 0 .. (n - 1)}
              old == spaces[s].areas
              new == spaces'[s].areas
          IN  /\ \A p \in pages :
                    /\ translate(mem, s, p) # None
                    /\ translate(mem', s, p) = None
              /\ \A v \in RegionProbes :
                    PageOf(v) \notin pages =>
                        translate(mem', s, v) = translate(mem, s, v)
              /\ \A i \in DOMAIN new : new[i].range.start # start
              /\ Len(new) = Cardinality(KeptPositions(old, start))
              /\ \A k \in DOMAIN new :
                    new[k] = old[KeptPosition(old, start, k)]
              /\ Len(last'.trace) = 2 * n
      ]_vars

\* unmap_region of the first page of a two-page area: the catalog is empty
\* although the area was two pages long, and its second page is still
\* mapped.
C19_Witness ==
    /\ last.op = "unmap_region" /\ last.res = "Ok"
    /\ last.vaddr = VA_A /\ last.size = PAGE_SIZE
    /\ spaces[1].areas = << >>
    /\ translate(mem, 1, VA_A) = None
    /\ translate(mem, 1, VA_B) # None

\* C20: activate writes satp with mode Sv39 (8), ASID 0 and the root
\* table's address shifted right by 12 as page number, and issues the full
\* flush after that write and nothing else; it changes no page table, no
\* catalog and no allocator state; from then on translate_addr returns for
\* every address what walk_page_table returns on the activated space's root.
C20_Activate ==
    [][/\ last'.op = "activate" =>
             LET space == spaces[last'.space] IN
             /\ satp_mode(satp') = W(8)
             /\ satp_asid(satp') = {}
             /\ satp_ppn(satp') = Shr(space.page_table_paddr, 12)
             /\ satp' = Or({63}, Shr(space.page_table_paddr, 12))
             /\ Len(last'.trace) = 2
             /\ last'.trace[1].kind = "csrw satp"
             /\ last'.trace[1].value = satp'
             /\ last'.trace[2] = sfence_vma_all
             /\ mem' = mem /\ spaces' = spaces
             /\ frame_allocator' = frame_allocator /\ issued' = issued
             /\ \A v \in KernelProbes :
                   translate_addr(mem', satp', v)
                     = walk_page_table(mem', space.page_table_paddr, v)
       /\ (last'.op = "translate_addr" /\ last.op = "activate") =>
             last'.ret = walk_page_table(mem,
                                         spaces[last.space].page_table_paddr,
                                         last'.vaddr)
      ]_vars

\* The kernel space is active and an address inside the console page was
\* translated through satp to itself.
C20_Witness ==
    /\ last.op = "translate_addr"
    /\ last.vaddr = Add(UART_BASE, W(2048))
    /\ last.ret = Some(Add(UART_BASE, W(2048)))
    /\ satp_mode(satp) = Sv39
    /\ Shl(satp_ppn(satp), 12) = spaces[1].page_table_paddr
    /\ Len(spaces[1].areas) = 2

\* A region-mapping call: which of the two functions, and its arguments.
RegionCalls ==
    {[fn |-> f, arg |-> r] :
        f \in {"map_region", "map_region_identity"}, r \in RegionArgs}

RegionCall(c, m, a, space) ==
    IF c.fn = "map_region"
    THEN map_region(m, a, space, c.arg.start, c.arg.size, c.arg.area_type)
    ELSE map_region_identity(m, a, space, c.arg.start, c.arg.size,
                             c.arg.area_type)

\* The pages a call maps.
CallPages(c) ==
    {PageOf(RegionPage(c.arg.start, j)) :
        j \in 0 .. (RegionPageCount(c.arg.size) - 1)}

\* Call d issued on what call c left behind (o), and what both leave.
Left(q) == [ok |-> q.res = "Ok", mem |-> q.mem, areas |-> q.areas]
AfterBoth(o, d, space) ==
    IF o.res # "Ok" THEN [ok |-> FALSE, mem |-> o.mem, areas |-> o.areas]
    ELSE Left(RegionCall(d, o.mem, o.alloc,
                         [space EXCEPT !.areas = o.areas]))

InOrder(c, d, m, a, space) == AfterBoth(RegionCall(c, m, a, space), d, space)

\* Whether a page is mapped and, if so, the flag bits of its leaf.
PageFlags(m, root_paddr, p) ==
    IF walk_page_table(m, root_paddr, p) = None THEN None
    ELSE LET pte2 == m[root_paddr][Val(vpn2(p))]
             pte1 == m[pte_phys_addr(pte2)][Val(vpn1(p))]
         IN  Some(pte_flags(m[pte_phys_addr(pte1)][Val(vpn0(p))]))

SameMapping(x, y, c, d, root_paddr) ==
    /\ x.ok = y.ok
    /\ x.ok =>
          /\ \A v \in RegionProbes :
                PageFlags(x.mem, root_paddr, PageOf(v))
                    = PageFlags(y.mem, root_paddr, PageOf(v))
          /\ {x.areas[i] : i \in DOMAIN x.areas}
                = {y.areas[i] : i \in DOMAIN y.areas}
          /\ Len(x.areas) = Len(y.areas)
          /\ (c.fn = "map_region_identity" /\ d.fn = "map_region_identity") =>
                \A v \in RegionProbes :
                    walk_page_table(x.mem, root_paddr, v)
                        = walk_page_table(y.mem, root_paddr, v)

\* C21: from any state of an address space, two region-mapping calls on
\* disjoint page sets succeed in one order exactly when they succeed in the
\* other, and then both orders leave the same pages mapped with the same
\* flags and the same set of catalog areas; when both calls are identity
\* mappings every address translates the same.
C21_OrderIndependent ==
    \A s \in DOMAIN spaces :
        calls + 2 <= MaxRegionCalls =>
            \A c, d \in RegionCalls :
                CallPages(c) \cap CallPages(d) = {} =>
                    SameMapping(InOrder(c, d, mem, frame_allocator, spaces[s]),
                                InOrder(d, c, mem, frame_allocator, spaces[s]),
                                c, d, spaces[s].page_table_paddr)

\* A space on which map_region of the code page and map_region_identity of
\* the heap page next to it succeed in both orders, with different catalog
\* orders and different backing frames.
C21_Witness ==
    /\ Len(spaces) = 1 /\ calls + 2 <= MaxRegionCalls
    /\ LET c == [fn |-> "map_region",
                 arg |-> RegionArg(VA_A, PAGE_SIZE, "Code")]
           d == [fn |-> "map_region_identity",
                 arg |-> RegionArg(VA_B, PAGE_SIZE, "Heap")]
           x == InOrder(c, d, mem, frame_allocator, spaces[1])
           y == InOrder(d, c, mem, frame_allocator, spaces[1])
       IN  /\ x.ok /\ y.ok
           /\ x.areas # y.areas
           /\ walk_page_table(x.mem, spaces[1].page_table_paddr, VA_A)
                 # walk_page_table(y.mem, spaces[1].page_table_paddr, VA_A)

\* The valid entries of a table, and whether an entry is a branch.
ValidIndices(t) == {i \in DOMAIN t : pte_is_valid(t[i])}
IsBranch(e) == pte_is_valid(e) /\ ~pte_is_leaf(e)

\* The pages mapped under a root, read off the table tree: every valid
\* level-0 entry below valid branches, as << vpn2, vpn1, vpn0 >>; a leaf
\* above level 0 counts with the index -1 below it.
MappedIndices(m, root_paddr) ==
    LET t2 == m[root_paddr] IN
    UNION {IF ~IsBranch(t2[i]) THEN {<< i, -1, -1 >>}
           ELSE LET t1 == m[pte_phys_addr(t2[i])] IN
                UNION {IF ~IsBranch(t1[j]) THEN {<< i, j, -1 >>}
                       ELSE {<< i, j, k >> :
                               k \in ValidIndices(m[pte_phys_addr(t1[j])])} :
                       j \in ValidIndices(t1)} :
           i \in ValidIndices(t2)}

\* The index triple of the page of an address.
IndicesOf(v) == << Val(vpn2(v)), Val(vpn1(v)), Val(vpn0(v)) >>

C23_AreasAlignedNonEmpty ==
    \A s \in DOMAIN spaces : \A i \in DOMAIN spaces[s].areas :
        LET range == spaces[s].areas[i].range IN
        /\ range.start \cap Ones(12) = {}
        /\ range.end \cap Ones(12) = {}
        /\ Lt(range.start, range.end)

\* The part of C23 that aligned, non-empty arguments keep: an area recorded
\* by a call with a page-aligned start and a size that is a positive
\* multiple of the page size is page-aligned and non-empty.
C23_AlignedArgumentsOnly ==
    [][(/\ last'.op \in {"map_region", "map_region_identity"}
        /\ last'.res = "Ok"
        /\ last'.vaddr \cap Ones(12) = {}
        /\ last'.size \cap Ones(12) = {} /\ last'.size # {}) =>
          LET areas == spaces'[last'.space].areas
              range == areas[Len(areas)].range
          IN  /\ range.start \cap Ones(12) = {}
              /\ range.end \cap Ones(12) = {}
              /\ Lt(range.start, range.end)
      ]_vars

\* Whether the page at p lies inside an area of the catalog.
InSomeArea(areas, p) ==
    \E i \in DOMAIN areas :
        Geq(p, areas[i].range.start) /\ Lt(p, areas[i].range.end)

\* C24: in every address space a page is mapped under the root table if and
\* only if it lies inside some area of the catalog.
C24_CatalogDescribesMappings ==
    \A s \in DOMAIN spaces : \A v \in RegionProbes :
        (translate(mem, s, PageOf(v)) # None)
            <=> InSomeArea(spaces[s].areas, PageOf(v))

\* ------------------------------------------------------------------------
\* The boot sequence of the kernel build: kernel_main, statement by
\* statement, with the timer interrupt arriving whenever sstatus.SIE and
\* sie.STIE allow it and, once an address space is active, the page faults
\* its tables make possible
\* ------------------------------------------------------------------------

\* memory::init: physical memory ends at 0x8800_0000.
MEMORY_END == W32(34816, 0)

\* test_page_table_features maps this many consecutive pages in its loop.
LOOP_PAGES == 3

\* Code positions of kernel_main and of the functions it calls.
K_INIT_IDT == 512
K_ENABLE == 528
K_MEMORY_INIT == 544
K_INIT_HEAP == 560
K_TABLE == 576
K_MAP == 592
K_WALK == 608
K_MAP_LOOP == 624
K_CREATE == 672
K_ACTIVATE == 688
K_EXECUTOR == 704

TEST_VADDR == W32(4096, 0)                   \* 0x1000_0000
TEST_PADDR == W32(33024, 0)                  \* 0x8100_0000
LOOP_VADDR == W32(8192, 0)                   \* 0x2000_0000
LOOP_PADDR == W32(33280, 0)                  \* 0x8200_0000
TEST_FLAGS == Or(PTF_Read, Or(PTF_Write, PTF_Valid))

\* The calls of the boot sequence that change the frame allocator or a
\* page table.
MutatingCalls ==
    {K_TABLE, K_MAP, K_CREATE}
    \cup {K_MAP_LOOP + i * STATEMENT : i \in 0 .. (LOOP_PAGES - 1)}

\* The statements that change no memory-management state.  init_heap is
\* called with the frame allocator, which the function in allocator.rs does
\* not accept: its result is either one, and Err ends in the panic of
\* expect().  A mutating call is entered; the executor is where the sequence
\* ends.
kernel_statement(h, heap) ==
    CASE h.pc = K_INIT_IDT -> [init_idt(h) EXCEPT !.pc = K_ENABLE]
      [] h.pc = K_ENABLE ->
             [enable_interrupts(h) EXCEPT !.pc = K_MEMORY_INIT]
      [] h.pc = K_INIT_HEAP ->
             IF heap = "Ok" THEN [h EXCEPT !.pc = K_TABLE] ELSE panic(h)
      [] h.pc = K_WALK -> [h EXCEPT !.pc = K_MAP_LOOP]
      [] h.pc \in MutatingCalls -> [h EXCEPT !.pc = h.pc + INSIDE]
      [] OTHER -> [h EXCEPT !.mode = "executor"]

KernelStatement ==
    /\ hart.mode = "run"
    /\ hart.pc \in {K_INIT_IDT, K_ENABLE, K_INIT_HEAP, K_WALK, K_EXECUTOR}
                   \cup MutatingCalls
    /\ \E heap \in {"Ok", "Err"} : hart' = kernel_statement(hart, heap)
    /\ MemoryUnchanged

MemoryInit ==
    /\ hart.mode = "run"
    /\ hart.pc = K_MEMORY_INIT
    /\ frame_allocator' = SimpleFrameAllocator_new(kernel_end, MEMORY_END)
    /\ hart' = [hart EXCEPT !.pc = K_INIT_HEAP]
    /\ last' = Op("memory::init", {}, {}, {}, Boot)
    /\ UNCHANGED << kernel_end, memory_end, mem, root, spaces, satp, issued,
                    calls, freed, mapped >>

\* allocate().expect(), then zero().
KernelCreateTestTable ==
    /\ hart.mode = "run"
    /\ hart.pc = K_TABLE + INSIDE
    /\ LET r == allocate(frame_allocator) IN
       /\ frame_allocator' = r.alloc
       /\ issued' = issued \o r.frame
       /\ mem' = IF r.frame = None THEN mem ELSE zero(mem, r.frame[1])
       /\ root' = r.frame
       /\ hart' = IF r.frame = None THEN panic(hart)
                  ELSE [hart EXCEPT !.pc = K_MAP]
       /\ last' = Op("create_table", {}, {}, {},
                     Outcome(<< >>, << >>,
                             IF r.frame = None THEN "None" ELSE "Ok",
                             r.frame, r.frame, << >>))
    /\ UNCHANGED << kernel_end, memory_end, spaces, satp, calls, freed,
                    mapped >>

RECURSIVE DemoMapped(_)

\* The page a map_page_verbose call of the sequence maps, and where.
KernelMapArgs(pc) ==
    IF pc = K_MAP + INSIDE
    THEN [vaddr |-> TEST_VADDR, paddr |-> TEST_PADDR]
    ELSE LET i == W((pc - INSIDE - K_MAP_LOOP) \div STATEMENT)
         IN  [vaddr |-> Add(LOOP_VADDR, Mul(i, PAGE_SIZE)),
              paddr |-> Add(LOOP_PADDR, Mul(i, PAGE_SIZE))]

KernelMapPage ==
    /\ hart.mode = "run"
    /\ hart.pc \in {p + INSIDE : p \in MutatingCalls \ {K_TABLE, K_CREATE}}
    /\ root # None
    /\ LET c == KernelMapArgs(hart.pc)
           o == map_page_verbose(mem, frame_allocator, root[1], c.vaddr,
                                 c.paddr, TEST_FLAGS)
       IN  /\ mem' = o.mem
           /\ frame_allocator' = o.alloc
           /\ issued' = issued \o o.got
           /\ last' = Op("map_page", c.vaddr, c.paddr, TEST_FLAGS, o)
    /\ hart' = [hart EXCEPT !.pc = NextStatement(hart.pc)]
    /\ UNCHANGED << kernel_end, memory_end, root, spaces, satp, calls, freed,
                    mapped >>

\* create_kernel_address_space; on Err test_kernel_address_space returns.
KernelCreateAddressSpace ==
    /\ hart.mode = "run"
    /\ hart.pc = K_CREATE + INSIDE
    /\ LET o == create_kernel_address_space(mem, frame_allocator) IN
       /\ mem' = o.mem
       /\ frame_allocator' = o.alloc
       /\ issued' = issued \o o.got
       /\ spaces' = spaces \o o.ret
       /\ last' = SpaceOp("create_kernel_address_space", Len(spaces'), {},
                          {}, "", o)
       /\ hart' = [hart EXCEPT !.pc = IF o.res = "Ok" THEN K_ACTIVATE
                                      ELSE K_EXECUTOR]
    /\ UNCHANGED << kernel_end, memory_end, root, satp, calls, freed,
                    mapped >>

KernelActivate ==
    /\ hart.mode = "run"
    /\ hart.pc = K_ACTIVATE
    /\ spaces # << >>
    /\ LET r == activate(spaces[Len(spaces)]) IN
       /\ satp' = r.satp
       /\ last' = SpaceOp("activate", Len(spaces), {}, {}, "",
                          Outcome(mem, frame_allocator, "Ok", None, << >>,
                                  r.trace))
    /\ hart' = [hart EXCEPT !.pc = K_EXECUTOR]
    /\ UNCHANGED << kernel_end, memory_end, frame_allocator, mem, root,
                    spaces, issued, calls, freed, mapped >>

\* The access a page fault cause stands for, as the permission it needs.
Permission(cause) ==
    CASE cause = "LoadPageFault" -> PTF_Read
      [] cause = "StorePageFault" -> PTF_Write
      [] OTHER -> PTF_Execute

\* With Sv39 translation on, an access faults when the page has no leaf or
\* the leaf lacks the permission.
Faults(m, bits, vaddr, cause) ==
    /\ satp_mode(bits) = Sv39
    /\ LET f == PageFlags(m, Shl(satp_ppn(bits), 12), PageOf(vaddr))
       IN  IF f = None THEN TRUE ELSE And(f[1], Permission(cause)) = {}

PageFault ==
    /\ hart.mode = "run"
    /\ hart.pc # HLT_LOOP
    /\ \E cause \in PageFaults, vaddr \in KernelProbes :
           /\ Faults(mem, satp, vaddr, cause)
           /\ hart' = trap_entry(hart, cause, vaddr, hart.pc, 0)
    /\ MemoryUnchanged

\* kernel_main from its first statement to the call of
\* create_kernel_address_space.
InitBoot ==
    /\ kernel_end = Add(KernelBase, W(1))
    /\ memory_end = MEMORY_END
    /\ frame_allocator = [next_frame |-> {}, end_frame |-> {}]
    /\ mem = << >>
    /\ root = None
    /\ spaces = << >>
    /\ satp = {}
    /\ hart = [HartReset EXCEPT !.pc = K_INIT_IDT]
    /\ issued = << >>
    /\ calls = 0
    /\ freed = {}
    /\ mapped = NoMapping
    /\ last = Op("init", {}, {}, {}, Boot)

NextBoot ==
    \/ KernelStatement
    \/ MemoryInit
    \/ KernelCreateTestTable
    \/ KernelMapPage
    \/ TimerInterrupt
    \/ TrapHandler
    \/ Wfi
SpecBoot == InitBoot /\ [][NextBoot]_vars

\* kernel_main from the call of create_kernel_address_space on, after an
\* uninterrupted run of the statements before it: the test table holds the
\* four pages of test_page_table_features, interrupts are enabled.
DemoTable == allocate(SimpleFrameAllocator_new(Add(KernelBase, W(1)),
                                               MEMORY_END))

DemoMapped(n) ==
    IF n = 0
    THEN Outcome(zero(<< >>, DemoTable.frame[1]), DemoTable.alloc, "Ok",
                 None, DemoTable.frame, << >>)
    ELSE LET o == DemoMapped(n - 1)
             c == KernelMapArgs(K_MAP + (n - 1) * STATEMENT + INSIDE
                                + IF n = 1 THEN 0 ELSE STATEMENT)
             r == map_page_verbose(o.mem, o.alloc, DemoTable.frame[1],
                                   c.vaddr, c.paddr, TEST_FLAGS)
         IN  [r EXCEPT !.got = o.got \o r.got]

InitFault ==
    /\ kernel_end = Add(KernelBase, W(1))
    /\ memory_end = MEMORY_END
    /\ frame_allocator = DemoMapped(LOOP_PAGES + 1).alloc
    /\ mem = DemoMapped(LOOP_PAGES + 1).mem
    /\ root = DemoTable.frame
    /\ spaces = << >>
    /\ satp = {}
    /\ hart = [enable_interrupts(init_idt(HartReset)) EXCEPT !.pc = K_CREATE]
    /\ issued = DemoMapped(LOOP_PAGES + 1).got
    /\ calls = 0
    /\ freed = {}
    /\ mapped = NoMapping
    /\ last = Op("init", {}, {}, {}, Boot)

NextFault ==
    \/ KernelStatement
    \/ KernelCreateAddressSpace
    \/ KernelActivate
    \/ PageFault
    \/ TimerInterrupt
    \/ TrapHandler
    \/ Wfi
SpecFault == InitFault /\ [][NextFault]_vars

\* The page number of the last call's physical address.
LastPpn == Shr(last.paddr, 12)

\* C29 as stated: after a successful map_page the level-0 entry is
\* (physical page number << 12) | requested flags | validity bit.
C29_LeafShift12 ==
    (last.op = "map_page" /\ last.res = "Ok") =>
        EntryAt0(mem, last.vaddr)
            = Or(Shl(LastPpn, 12), Or(last.flags, PTF_Valid))

\* C29, amended: after a successful map_page the level-0 entry is
\* (physical page number << 10) | requested flags | validity bit.
C29_LeafShift10 ==
    (last.op = "map_page" /\ last.res = "Ok") =>
        EntryAt0(mem, last.vaddr)
            = Or(Shl(LastPpn, 10), Or(last.flags, PTF_Valid))

\* A page mapped with flags that do not include the validity bit.
C29_Witness ==
    /\ last.op = "map_page"
    /\ last.res = "Ok"
    /\ last.flags = PTF_User
    /\ last.paddr = PA_2

\* The low ten bits of an entry: the eight flags and the two reserved bits.
LowBits(e) == And(e, Ones(10))

\* Every valid entry of the root table and of the tables it points to has
\* the validity bit as its only low bit.
BranchesExact(m, r) ==
    \/ r = None
    \/ \A i \in ValidIndices(m[r[1]]) :
           /\ LowBits(m[r[1]][i]) = PTF_Valid
           /\ LET t1 == m[pte_phys_addr(m[r[1]][i])]
              IN  \A j \in ValidIndices(t1) : LowBits(t1[j]) = PTF_Valid

\* Table t is zero but for the entry at index `but`.
ZeroBut(t, but) == \A k \in DOMAIN t : k # but => t[k] = {}

\* The tables the last map_page call allocated (last.got) are the ones its
\* new branches point to, and each holds nothing but what the same call
\* put on the path of its page: a level-1 table the branch at vpn1, a
\* level-0 table the leaf at vpn0.
NewBranchesZeroed ==
    LET pte2 == mem[root[1]][Val(vpn2(last.vaddr))]
        t1 == pte_phys_addr(pte2)
    IN  \A n \in DOMAIN last.got :
            LET f == last.got[n] IN
            IF f = t1
            THEN /\ pte_is_valid(pte2)
                 /\ ZeroBut(mem[f], Val(vpn1(last.vaddr)))
            ELSE /\ pte_is_valid(pte2)
                 /\ mem[t1][Val(vpn1(last.vaddr))]
                        = pte_set(Shr(f, 12), PTF_Valid)
                 /\ ZeroBut(mem[f], Val(vpn0(last.vaddr)))

\* C30: in a tree built from a zeroed root by map_page and unmap_page, every
\* valid entry at level 2 and level 1 is a branch whose low bits are exactly
\* the validity bit, and the table a branch points to was zeroed when the
\* branch was installed.
C30_BranchesExactAndZeroed ==
    /\ BranchesExact(mem, root)
    /\ last.op = "map_page" => NewBranchesZeroed

\* A second page mapped under an existing level-1 table: one new branch at
\* level 1, none at level 2.
C30_Witness ==
    /\ last.op = "map_page"
    /\ last.res = "Ok"
    /\ Len(last.got) = 1
    /\ Cardinality({p \in VPages : mapped[p] # None}) = 2

\* The hart is in hlt_loop, put there by page_fault_handler.
HaltedByPageFault ==
    /\ hart.mode = "run"
    /\ hart.pc = HLT_LOOP
    /\ hart.handled # None
    /\ hart.handled[1].handler = "page_fault_handler"

\* C25: a load, store or instruction page fault is fatal: trap_handler
\* passes the cause, the faulting address and the pc to page_fault_handler,
\* which changes no page table, allocator, address space or satp and does
\* not return: the hart is in hlt_loop, and once there nothing changes.
C25_PageFaultFatal ==
    [][/\ (hart.mode = "trap" /\ hart.scause \in PageFaults) =>
              /\ hart'.handled = Called("page_fault_handler", hart.scause,
                                        hart.stval, hart.sepc)
              /\ hart'.mode = "run"
              /\ hart'.pc = HLT_LOOP
              /\ UNCHANGED << mem, frame_allocator, root, spaces, satp >>
       /\ HaltedByPageFault =>
              /\ hart' = hart
              /\ UNCHANGED << mem, frame_allocator, root, spaces, satp >>]_vars

\* Halted after an instruction fetch from the console page, which the
\* kernel address space maps without execute permission.
C25_Witness ==
    /\ HaltedByPageFault
    /\ hart.handled = Called("page_fault_handler", "InstructionPageFault",
                             UART_BASE, K_EXECUTOR)
    /\ satp_mode(satp) = Sv39

C27_WithoutInterrupts ==
    [][/\ \A i \in DOMAIN hart.frames :
              hart.frames[i].at = "f" => ~hart.sie
       /\ (hart.mode = "run" /\ AtStatement("restore")) =>
              /\ Len(hart'.frames) = Len(hart.frames) - 1
              /\ hart'.sie = hart.frames[Len(hart.frames)].sie]_vars

\* A nested call about to return inside the closure of a call that was
\* entered with interrupts enabled.
C27_Witness ==
    /\ Len(hart.frames) = 2
    /\ hart.frames[1].sie
    /\ hart.frames[2].at = "restore"
    /\ hart.mode = "run"

\* C28: a breakpoint is not fatal: trap_handler sets sepc to the pc of the
\* breakpoint plus 2 and returns, and execution resumes at sepc, after the
\* breakpoint.
C28_BreakpointResumes ==
    [][(hart.mode = "trap" /\ hart.scause = "Breakpoint") =>
           /\ hart'.mode = "run"
           /\ hart'.sepc = hart.sepc + 2
           /\ hart'.pc = hart'.sepc]_vars

\* What the code does instead: the statement after the ebreak is never
\* reached, and the test never ends.
C28_TestNeverPasses ==
    /\ hart.pc # T_PASSED
    /\ hart.mode # "shutdown"

\* The level-0 tables under the test table: the targets of the valid
\* branches of the valid branches of the root.
Level0Tables(m, root_paddr) ==
    UNION {{pte_phys_addr(m[pte_phys_addr(m[root_paddr][i])][j]) :
               j \in {j \in ValidIndices(m[pte_phys_addr(m[root_paddr][i])]) :
                        IsBranch(m[pte_phys_addr(m[root_paddr][i])][j])}} :
           i \in {i \in ValidIndices(m[root_paddr]) :
                    IsBranch(m[root_paddr][i])}}

\* C31: every valid entry at level 0 is a leaf: after any sequence of
\* map_page calls with any flags argument and unmap_page calls, no valid
\* level-0 entry has all of R, W and X clear.
C31_Level0EntriesAreLeaves ==
    root # None =>
        \A t \in Level0Tables(mem, root[1]) :
            \A k \in ValidIndices(mem[t]) : pte_is_leaf(mem[t][k])

\* What the code guarantees: a valid level-0 entry has R, W and X clear
\* only where the map_page call that wrote it was given flags without R, W
\* and X.
C31_LeafFlagsGiveLeaves ==
    root # None =>
        \A p \in VPages :
            (mapped[p] # None /\ And(mapped[p][1].flags, RWX) # {}) =>
                pte_is_leaf(EntryAt0(mem, p))

\* The frames an allocator can still hand out are none, or exactly one.
Exhausted(a) == allocate(a).frame = None
OneFrameLeft(a) == ~Exhausted(a) /\ Exhausted(allocate(a).alloc)

\* A map_page call on the test table for vaddr has to allocate a table.
NeedsTable(m, vaddr) ==
    LET pte2 == get_entry(deref(m, root[1]), vpn2(vaddr)) IN
    IF ~pte_is_valid(pte2) THEN TRUE
    ELSE ~pte_is_valid(get_entry(deref(m, pte_phys_addr(pte2)), vpn1(vaddr)))

\* The step is a map_page call on the test table.
MapPageStep == root # None /\ last'.op = "map_page"

\* C32: map_page does not roll back on failure: when the level-2 entry was
\* invalid and the allocator has exactly one frame left, map_page returns
\* out-of-memory with the new level-1 table allocated, zeroed and linked
\* from the root as a branch and the allocator exhausted; when the allocator
\* has no frame left and a table is needed, map_page returns out-of-memory
\* with all tables unchanged.
C32_NoRollback ==
    [][MapPageStep =>
          /\ (/\ ~pte_is_valid(get_entry(deref(mem, root[1]),
                                         vpn2(last'.vaddr)))
              /\ OneFrameLeft(frame_allocator)) =>
                 LET table1_paddr == allocate(frame_allocator).frame[1] IN
                 /\ last'.res = "Out of memory"
                 /\ last'.got = << table1_paddr >>
                 /\ mem' = zero(write_entry(mem, root[1], vpn2(last'.vaddr),
                                            pte_set(Shr(table1_paddr, 12),
                                                    PTF_Valid)),
                                table1_paddr)
                 /\ Exhausted(frame_allocator')
          /\ (Exhausted(frame_allocator) /\ NeedsTable(mem, last'.vaddr)) =>
                 /\ last'.res = "Out of memory"
                 /\ last'.got = << >>
                 /\ mem' = mem]_vars

\* A map_page call has failed with out-of-memory after linking a new, empty
\* level-1 table from the root.
C32_Witness ==
    /\ last.op = "map_page"
    /\ last.res = "Out of memory"
    /\ Len(last.got) = 1
    /\ get_entry(deref(mem, root[1]), vpn2(last.vaddr))
          = pte_set(Shr(last.got[1], 12), PTF_Valid)
    /\ deref(mem, last.got[1]) = PageTable_zero
    /\ Exhausted(frame_allocator)

\* The level-0 table on the path of vaddr under the test table (the path's
\* tables exist).
Table0Of(m, vaddr) ==
    LET pte2 == get_entry(deref(m, root[1]), vpn2(vaddr)) IN
    pte_phys_addr(get_entry(deref(m, pte_phys_addr(pte2)), vpn1(vaddr)))

\* C33: unmap_page writes only the one level-0 entry of its target: it never
\* changes a level-2 or level-1 entry and never touches the allocator, so
\* branch tables that become empty stay linked, and a map_page of the same
\* virtual address after map_page then unmap_page allocates no frame.
C33_UnmapWritesOneEntry ==
    [][/\ (root # None /\ last'.op = "unmap_page") =>
              /\ frame_allocator' = frame_allocator
              /\ issued' = issued
              /\ mem' = IF last'.res = "Ok"
                        THEN write_entry(mem, Table0Of(mem, last'.vaddr),
                                         vpn0(last'.vaddr), pte_new)
                        ELSE mem
              /\ last'.res = "Ok" => ~NeedsTable(mem', last'.vaddr)
       /\ (/\ last.op = "unmap_page" /\ last.res = "Ok"
           /\ last'.op = "map_page" /\ last'.vaddr = last.vaddr) =>
              /\ last'.res = "Ok"
              /\ last'.got = << >>
              /\ frame_allocator' = frame_allocator]_vars

\* unmap_page has emptied a level-0 table, which is still linked from its
\* level-1 table.
C33_Witness ==
    /\ last.op = "unmap_page"
    /\ last.res = "Ok"
    /\ ~NeedsTable(mem, last.vaddr)
    /\ ValidIndices(deref(mem, Table0Of(mem, last.vaddr))) = {}

\* C34: a map_page that fails, with already-mapped or with out-of-memory,
\* leaves the result of translate unchanged for every virtual address,
\* including when it has linked a new empty level-1 table before failing; a
\* map_page failing with already-mapped also leaves every table entry and
\* the allocator unchanged.
C34_FailedMapKeepsTranslations ==
    [][(MapPageStep /\ last'.res # "Ok") =>
          /\ \A v \in Probes : Walk(mem', v) = Walk(mem, v)
          /\ last'.res = "Page already mapped" =>
                 /\ mem' = mem
                 /\ frame_allocator' = frame_allocator
                 /\ last'.got = << >>]_vars

\* map_page has refused to map a page that is mapped to another physical
\* address than the one requested.
C34_Witness ==
    /\ last.op = "map_page"
    /\ last.res = "Page already mapped"
    /\ Walk(mem, last.vaddr) # None
    /\ Walk(mem, last.vaddr) # Some(last.paddr)

\* Two areas share a virtual address.
AreasOverlap(x, y) ==
    /\ Lt(x.range.start, x.range.end)
    /\ Lt(y.range.start, y.range.end)
    /\ Lt(x.range.start, y.range.end)
    /\ Lt(y.range.start, x.range.end)

\* An area's range is page-aligned.
AreaAligned(x) ==
    /\ x.range.start \cap Ones(12) = {}
    /\ x.range.end \cap Ones(12) = {}

\* C35: the areas of one address space's catalog never overlap: after any
\* sequence of map_region, map_region_identity and unmap_region calls, no
\* two catalog areas share a virtual address.
C35_AreasDisjoint ==
    \A s \in DOMAIN spaces :
        \A i, j \in DOMAIN spaces[s].areas :
            i < j => ~AreasOverlap(spaces[s].areas[i], spaces[s].areas[j])

\* Overlapping areas need no unaligned argument: after map_region of two
\* pages, unmap_region of the second page and map_region_identity of that
\* page the catalog holds the two-page area and the one-page area inside it.
C35_AlignedOverlap ==
    \E s \in DOMAIN spaces :
        /\ Len(spaces[s].areas) = 2
        /\ spaces[s].areas[1].range
              = [start |-> VA_A, end |-> Add(VA_A, Add(PAGE_SIZE, PAGE_SIZE))]
        /\ spaces[s].areas[2].range
              = [start |-> VA_B, end |-> Add(VA_B, PAGE_SIZE)]
        /\ AreaAligned(spaces[s].areas[1])
        /\ AreaAligned(spaces[s].areas[2])
        /\ AreasOverlap(spaces[s].areas[1], spaces[s].areas[2])

\* The table entries of all address spaces as << table, index >> pairs, level
\* by level, and the frame an entry points at.
Roots == {spaces[s].page_table_paddr : s \in DOMAIN spaces}
EntriesOf(m, tables) ==
    UNION {{<< t, i >> : i \in ValidIndices(m[t])} : t \in tables}
Target(m, e) == pte_phys_addr(m[e[1]][e[2]])
Entries2(m) == EntriesOf(m, Roots)
Entries1(m) == EntriesOf(m, {Target(m, e) : e \in Entries2(m)})
Entries0(m) == EntriesOf(m, {Target(m, e) : e \in Entries1(m)})
Branches(m) == Entries2(m) \cup Entries1(m)
TableFrames(m) == Roots \cup {Target(m, e) : e \in Branches(m)}

\* C36: after any sequence of AddressSpace::new, map_region and unmap_region
\* calls that share one allocator, the frames used as page tables (roots
\* and branch targets) are pairwise distinct, each non-root table is
\* pointed to by exactly one branch entry, and no leaf installed by
\* map_region points at a frame used as a page table or at a frame that
\* another currently valid leaf points at.
C36_FramesNeverShared ==
    LET branches == Branches(mem)
        leaves == Entries0(mem)
        tables == Roots \cup {Target(mem, e) : e \in branches}
    IN  /\ \A s, t \in DOMAIN spaces :
               s # t => spaces[s].page_table_paddr # spaces[t].page_table_paddr
        /\ \A e \in branches : Target(mem, e) \notin Roots
        /\ \A e, f \in branches : e # f => Target(mem, e) # Target(mem, f)
        /\ \A e \in leaves :
               /\ pte_is_leaf(mem[e[1]][e[2]])
               /\ Target(mem, e) \notin tables
        /\ \A e, f \in leaves : e # f => Target(mem, e) # Target(mem, f)

\* Two address spaces, each with its own two branch tables and one mapped
\* page, filled from the one allocator until it had no frame left.
C36_Witness ==
    /\ Len(spaces) = 2
    /\ Cardinality(TableFrames(mem)) = 6
    /\ Cardinality(Entries0(mem)) = 2
    /\ Len(issued) = MaxSharedFrames

\* C37: successive successful allocate() calls return frames at strictly
\* increasing consecutive page addresses (each exactly 4096 above the
\* previous one), and once allocate() has reported out-of-memory every later
\* allocate() on that instance also reports out-of-memory and leaves the
\* cursor unchanged.
C37_ConsecutiveThenExhausted ==
    [][/\ \A i \in DOMAIN issued' :
              i > 1 => /\ issued'[i] = Add(issued'[i - 1], PAGE_SIZE)
                       /\ Lt(issued'[i - 1], issued'[i])
       /\ (last'.op = "allocate" /\ last'.res = "None") =>
              Exhausted(frame_allocator')
       /\ Exhausted(frame_allocator) =>
              /\ frame_allocator' = frame_allocator
              /\ issued' = issued
              /\ calls' = calls + 1 =>
                     (last'.op = "allocate" /\ last'.res = "None")]_vars

\* A second allocate() in a row has reported out-of-memory after at least
\* two frames were handed out.
C37_Witness ==
    /\ last.op = "allocate"
    /\ last.res = "None"
    /\ Len(issued) >= 2
    /\ calls >= Len(issued) + 2

\* The invalid entries on the path of vaddr at level 2 and level 1 (with no
\* level-1 table there is no valid level-1 entry).
InvalidOnPath(m, vaddr) ==
    LET pte2 == get_entry(deref(m, root[1]), vpn2(vaddr)) IN
    IF ~pte_is_valid(pte2) THEN 2
    ELSE IF ~pte_is_valid(get_entry(deref(m, pte_phys_addr(pte2)),
                                    vpn1(vaddr)))
    THEN 1
    ELSE 0

\* C38: a successful map_page takes from the allocator exactly as many
\* frames as there were invalid entries on its path at level 2 and level 1
\* before the call (0, 1 or 2): two for the first page under an unused
\* level-2 index, one for the first page under an unused level-1 index of an
\* existing level-1 table, none when both tables already exist.
C38_FramesTakenByMapPage ==
    [][(MapPageStep /\ last'.res = "Ok") =>
          LET n == InvalidOnPath(mem, last'.vaddr) IN
          /\ Len(last'.got) = n
          /\ issued' = issued \o last'.got
          /\ frame_allocator'.next_frame
                = Add(frame_allocator.next_frame, W(n))
          /\ frame_allocator'.end_frame = frame_allocator.end_frame]_vars

\* A second page has been mapped into an existing level-0 table without
\* taking a frame.
C38_Witness ==
    /\ last.op = "map_page"
    /\ last.res = "Ok"
    /\ last.got = << >>
    /\ Cardinality(ValidIndices(deref(mem, Table0Of(mem, last.vaddr)))) = 2

\* The frames that valid entries of the tables of all address spaces point
\* at.
Referenced(m) ==
    {Target(m, e) : e \in Branches(m) \cup Entries0(m)}

\* The first page at which a map_region loop over pages 0 .. n - 1 fails
\* (n when it does not fail).
FailedPage(m, a, space, start, flags, n) ==
    LET Fails(i) ==
            map_region_pages(Outcome(m, a, "Ok", None, << >>, << >>), space,
                             start, flags, 0, i + 1).res # "Ok"
    IN  IF \E i \in 0 .. (n - 1) : Fails(i)
        THEN CHOOSE i \in 0 .. (n - 1) :
                 Fails(i) /\ \A j \in 0 .. (i - 1) : ~Fails(j)
        ELSE n

\* C39: map_region takes the data frame for a page from the allocator before
\* it calls map_page for that page, so a map_region that fails at page i
\* (already-mapped, or out-of-memory for a branch table) has consumed i + 1
\* data frames, and the last of them is referenced by no table entry and is
\* never handed out again.
C39_FailedMapRegionLeaksFrame ==
    [][(/\ last'.op = "map_region"
        /\ calls' = calls + 1
        /\ last'.res # "Ok") =>
          LET space == spaces[last'.space]
              area == MemoryArea_new(last'.vaddr,
                                     Add(last'.vaddr, last'.size), last'.kind)
              i == FailedPage(mem, frame_allocator, space, last'.vaddr,
                              area.flags, Val(page_count(area)))
              before == map_region_pages(
                            Outcome(mem, frame_allocator, "Ok", None, << >>,
                                    << >>),
                            space, last'.vaddr, area.flags, 0, i)
              r == allocate(before.alloc)
              tables == TableFrames(mem')
              data == {k \in DOMAIN last'.got : last'.got[k] \notin tables}
          IN  IF r.frame = None
              THEN /\ last'.res = "Out of memory"
                   /\ Cardinality(data) = i
              ELSE /\ Cardinality(data) = i + 1
                   /\ \A k \in data : last'.got[k] = r.frame[1] <=>
                                      \A j \in data : j <= k
                   /\ r.frame[1] \notin Referenced(mem')
                   /\ \A k \in data :
                          last'.got[k] # r.frame[1] =>
                              last'.got[k] \in Referenced(mem')
                   /\ LET again == allocate(frame_allocator') IN
                      again.frame # None => Lt(r.frame[1], again.frame[1])
                   /\ NoDup(issued')]_vars

\* map_region has failed at its second page, which was already mapped: the
\* first page is mapped to the first of the two frames it took, and no
\* entry points at the second.
C39_Witness ==
    /\ last.op = "map_region"
    /\ last.res = "Page already mapped"
    /\ Len(last.got) = 2
    /\ translate(mem, last.space, last.vaddr) = Some(last.got[1])
    /\ last.got[2] \notin Referenced(mem)

\* C40: the verbose variants refine the plain ones: for every root table and
\* virtual address walk_page_table_verbose returns the same result as
\* walk_page_table, and for every table, arguments and allocator state
\* map_page_verbose returns the same result as map_page and leaves the
\* tables and the allocator in the same state.
C40_VerboseRefinesPlain ==
    [][/\ last'.op = "walk_page_table_verbose" =>
              /\ last'.ret = walk_page_table(mem, root[1], last'.vaddr)
              /\ mem' = mem
              /\ frame_allocator' = frame_allocator
       /\ (last'.op = "map_page_verbose" /\ last' # last) =>
              LET o == map_page(mem, frame_allocator, root[1], last'.vaddr,
                                last'.paddr, last'.flags)
              IN  /\ last'.res = o.res
                  /\ mem' = o.mem
                  /\ frame_allocator' = o.alloc]_vars

\* walk_page_table_verbose has translated an address through a 1 GiB leaf at
\* level 2, with address bits above bit 20 carried into the result.
C40_Witness ==
    /\ last.op = "walk_page_table_verbose"
    /\ pte_is_leaf(get_entry(deref(mem, root[1]), vpn2(last.vaddr)))
    /\ last.ret # None
    /\ And(last.vaddr, W32(16383, 65535)) # And(last.vaddr, W32(31, 65535))
=============================================================================
